---- MODULE Spec2Model ----
(***************************************************************************)
(* Authentication and session lifecycle of the AgriMind backend:           *)
(* auth.controller (signUp, signIn, refreshToken, signOut, ...),           *)
(* auth.middleware (authenticateToken) and the usage counters of           *)
(* user.model.  Every request is a process that performs one store round   *)
(* trip per step; requests of different slots interleave between steps.    *)
(* Time is the wall clock in seconds (the unit of the jwt iat/exp claims).  *)
(***************************************************************************)
EXTENDS Integers, Sequences, FiniteSets, TLC

\* ---------------------------------------------------------------- constants
FREE_CROP_LIMIT == 10
JWT_SECRET == "JWT_SECRET"
JWT_REFRESH_SECRET == "JWT_REFRESH_SECRET"
JWT_EXPIRES_IN == 900
JWT_REFRESH_EXPIRES_IN == 604800
RESET_EXPIRES_IN == 3600
SECONDS_IN_JANUARY == 2678400

\* ------------------------------------------------------------------- bounds
MaxAccounts == 2
MaxOps == 3
MaxTicks == 1

Slots == {1, 2}
Emails == {"a@x.com"}
Usernames == {"a1"}
Passwords == {"pw1", "pw2"}
SignUpEmails == Emails \cup {"b@x.com"}
SignUpUsernames == Usernames \cup {"b1"}

VARIABLES
    users,      \* the users collection: _id -> document
    nextId,     \* next _id handed out by User.create
    nextReset,  \* next value drawn by generatePasswordResetToken
    now,        \* wall clock, seconds
    ticks,      \* number of clock advances so far
    ops,        \* number of requests started so far
    reqs,       \* request slot -> the request being handled in it
    issuedR,    \* history: refresh tokens returned to a client
    issuedA,    \* history: access tokens returned to a client
    removed,    \* history: <<_id, token>> once taken out of refreshTokens
    consumed,   \* history: refresh tokens a successful refresh has exchanged
    revokedAll, \* history: tokens issued before a completed sign-out-all
    usedResets, \* history: reset tokens a successful reset-password has used
    counted     \* history: <<_id, month, apiType>> -> increments persisted

vars == <<users, nextId, nextReset, now, ticks, ops, reqs,
          issuedR, issuedA, removed, consumed, revokedAll, usedResets,
          counted>>

\* ------------------------------------------------------------------ helpers
Range(s) == {s[i] : i \in DOMAIN s}

\* MongoDB $pull: removes every element equal to x
Pull(s, x) == SelectSeq(s, LAMBDA y : y # x)

\* MongoDB $push: appends x (an array, duplicates are kept)
Push(s, x) == Append(s, x)

\* bcrypt.hash / bcrypt.compare: one-way, compare succeeds on the same plaintext
Hash(pw) == <<"bcrypt", pw>>
Compare(pw, h) == h = Hash(pw)

\* ------------------------------------------------------------------- tokens
NoTok == [sig |-> "none", id |-> 0, email |-> "", extra |-> <<>>, iat |-> 0, exp |-> 0]
Malformed == [sig |-> "malformed", id |-> 0, email |-> "", extra |-> <<>>, iat |-> 0, exp |-> 0]

\* jwt.sign(payload, secret, {expiresIn}): the token is a function of the
\* payload, the secret, the issue time in seconds and the lifetime
Sign(id, email, extra, secret, expiresIn, t) ==
    [sig |-> secret, id |-> id, email |-> email, extra |-> extra,
     iat |-> t, exp |-> t + expiresIn]

generateTokens(id, user, t) ==
    [accessToken |-> Sign(id, user.email,
                          <<user.username, user.farmerType, user.subscriptionType>>,
                          JWT_SECRET, JWT_EXPIRES_IN, t),
     refreshToken |-> Sign(id, user.email, <<>>,
                           JWT_REFRESH_SECRET, JWT_REFRESH_EXPIRES_IN, t)]

\* jwt.verify(token, secret): "ok" or the name of the error class thrown
Verify(tok, secret, t) ==
    IF tok.sig = "malformed" THEN "JsonWebTokenError"
    ELSE IF tok.sig # secret THEN "JsonWebTokenError"
    ELSE IF t >= tok.exp THEN "TokenExpiredError"
    ELSE "ok"

\* error instanceof jwt.JsonWebTokenError (TokenExpiredError extends it)
IsJsonWebTokenError(e) == e \in {"JsonWebTokenError", "TokenExpiredError"}

\* error instanceof jwt.TokenExpiredError
IsTokenExpiredError(e) == e = "TokenExpiredError"

\* the catch block of authenticateToken
AccessCatch(e) ==
    IF IsJsonWebTokenError(e) THEN "INVALID_ACCESS_TOKEN"
    ELSE IF IsTokenExpiredError(e) THEN "ACCESS_TOKEN_EXPIRED"
    ELSE e

\* the catch block of refreshToken
RefreshCatch(e) ==
    IF IsJsonWebTokenError(e) THEN "INVALID_REFRESH_TOKEN" ELSE e

\* ----------------------------------------------------------------- requests
NoResp == [status |-> 0, code |-> "", message |-> "",
           accessToken |-> NoTok, refreshToken |-> NoTok]

Idle == [op |-> "none", pc |-> "idle", atoken |-> NoTok, rtoken |-> NoTok,
         email |-> "", username |-> "", password |-> "", newPassword |-> "",
         resetToken |-> 0, uid |-> 0, newA |-> NoTok, newR |-> NoTok,
         resetExp |-> 0, raced |-> FALSE, apiType |-> "", mem |-> <<>>,
         loadedVersion |-> 0, usageIndex |-> 0, month |-> "",
         chain |-> <<>>, stage |-> 0, allowedTypes |-> {}, required |-> "",
         rememberMe |-> FALSE, accessCookie |-> 0, refreshCookie |-> 0,
         body |-> {},
         resp |-> NoResp]

\* the response ends the request; request-local values are dropped
Respond(q, status, code, at, rt) ==
    [Idle EXCEPT !.op = q.op, !.pc = "done", !.rtoken = q.rtoken,
                 !.resetToken = q.resetToken, !.raced = q.raced,
                 !.resp = [status |-> status, code |-> code, message |-> "",
                           accessToken |-> at, refreshToken |-> rt]]

Fail(q, status, code) == Respond(q, status, code, NoTok, NoTok)

\* a response whose message text is part of the contract
FailMessage(q, status, code, message) ==
    [Fail(q, status, code) EXCEPT !.resp.message = message]

\* maxAge of the cookies, in seconds
ACCESS_COOKIE_MAX_AGE == 15 * 60
REFRESH_COOKIE_MAX_AGE == 7 * 24 * 60 * 60
EXTENDED_COOKIE_MAX_AGE == 30 * 24 * 60 * 60

\* setTokenCookies(res, accessToken, refreshToken)
setTokenCookies(q) ==
    [q EXCEPT !.accessCookie = ACCESS_COOKIE_MAX_AGE,
              !.refreshCookie = REFRESH_COOKIE_MAX_AGE]

\* the cookies of signIn: extendedCookieOptions when rememberMe is set
signInCookies(q, rememberMe) ==
    IF rememberMe
    THEN [q EXCEPT !.accessCookie = ACCESS_COOKIE_MAX_AGE,
                   !.refreshCookie = EXTENDED_COOKIE_MAX_AGE]
    ELSE setTokenCookies(q)

\* next(): control goes to the next function of the route's stack, the
\* handler when the middleware are through
Onward(q) ==
    IF q.stage < Len(q.chain)
    THEN [q EXCEPT !.stage = @ + 1, !.pc = q.chain[q.stage + 1]]
    ELSE [q EXCEPT !.stage = @ + 1, !.pc = "handler"]

Free(r) == reqs[r].pc \in {"idle", "done"} /\ ops < MaxOps

\* tokens a client can present: none, a string that is not a token, and the
\* tokens handed out so far (a token of the other kind carries the signature
\* of the other secret)
RefreshInputs == issuedR \cup issuedA \cup {NoTok, Malformed}
AccessInputs == issuedA \cup issuedR \cup {NoTok, Malformed}

\* --------------------------------------------------------------- the store
Exists(id) == id \in DOMAIN users

\* subscriptionExpiry of an account that has none (the path is not set)
NoExpiry == -1

NewUser(email, username, hashed) ==
    [email |-> email, username |-> username, password |-> hashed,
     farmerType |-> "individual", subscriptionType |-> "free",
     subscriptionExpiry |-> NoExpiry, isEmailVerified |-> FALSE,
     refreshTokens |-> <<>>, passwordResetToken |-> 0,
     passwordResetExpiry |-> 0, apiUsage |-> <<>>, version |-> 0,
     rtWrites |-> 0]

\* documents matching an email-or-username query
Matching(email, username) ==
    {i \in DOMAIN users : users[i].email = email \/ users[i].username = username}

\* <<_id, token>> pairs taken out of refreshTokens when the collection
\* goes from users to u
Removals(u) ==
    {p \in UNION {{<<i, t>> : t \in Range(users[i].refreshTokens)} : i \in DOMAIN users} :
        p[1] \notin DOMAIN u \/ p[2] \notin Range(u[p[1]].refreshTokens)}

\* ------------------------------------------------------------------- usage
ApiTypes == {"cropRecommendations", "imageProcessing", "chatMessages"}
SubscriptionTypes == {"free", "basic", "premium", "enterprise"}

\* new Date().toISOString().slice(0, 7) for the first months after the epoch
MonthOf(t) ==
    IF t < 2678400 THEN "1970-01"
    ELSE IF t < 5097600 THEN "1970-02"
    ELSE IF t < 7776000 THEN "1970-03"
    ELSE "1970-04"

Months == {"1970-01", "1970-02", "1970-03", "1970-04"}

UsageKeys == (1 .. (MaxAccounts + 1)) \X Months \X ApiTypes

\* the ceilings the currentApiUsage getter derives from the subscription type
DefaultLimits(subscriptionType) ==
    [cropRecommendations |-> IF subscriptionType = "free" THEN 10
                             ELSE IF subscriptionType = "basic" THEN 50
                             ELSE IF subscriptionType = "premium" THEN 200 ELSE 1000,
     imageProcessing |-> IF subscriptionType = "free" THEN 5
                         ELSE IF subscriptionType = "basic" THEN 25
                         ELSE IF subscriptionType = "premium" THEN 100 ELSE 500,
     chatMessages |-> IF subscriptionType = "free" THEN 50
                      ELSE IF subscriptionType = "basic" THEN 200
                      ELSE IF subscriptionType = "premium" THEN 1000 ELSE 5000]

\* UsageIndex taking the first record whatever its month
UsageIndexAnyMonth(doc, month) == IF doc.apiUsage # <<>> THEN 1 ELSE 0

\* Array.prototype.findIndex on apiUsage: first index of the month, 0 for -1
UsageIndex(doc, month) ==
    IF \E i \in DOMAIN doc.apiUsage : doc.apiUsage[i].month = month
    THEN CHOOSE i \in DOMAIN doc.apiUsage :
            /\ doc.apiUsage[i].month = month
            /\ \A j \in DOMAIN doc.apiUsage : doc.apiUsage[j].month = month => i <= j
    ELSE 0

\* currentApiUsage returning the zero record whatever is stored
currentApiUsageUnread(doc, t) ==
    [month |-> MonthOf(t), cropRecommendations |-> 0, imageProcessing |-> 0,
     chatMessages |-> 0, maxLimits |-> DefaultLimits(doc.subscriptionType)]

\* the virtual currentApiUsage
currentApiUsage(doc, t) ==
    IF UsageIndex(doc, MonthOf(t)) # 0
    THEN doc.apiUsage[UsageIndex(doc, MonthOf(t))]
    ELSE [month |-> MonthOf(t), cropRecommendations |-> 0, imageProcessing |-> 0,
          chatMessages |-> 0, maxLimits |-> DefaultLimits(doc.subscriptionType)]

\* hasExceededAPILimit comparing with > in place of >=
hasExceededAPILimitStrict(doc, apiType, t) ==
    currentApiUsage(doc, t)[apiType] > currentApiUsage(doc, t).maxLimits[apiType]

\* the method hasExceededAPILimit
hasExceededAPILimit(doc, apiType, t) ==
    currentApiUsage(doc, t)[apiType] >= currentApiUsage(doc, t).maxLimits[apiType]

\* the method incrementAPIUsage: the in-memory document after the call
\* incrementAPIUsage bringing the record's ceilings up to the tier's
incrementAPIUsageRefreshesLimits(doc, apiType, t) ==
    IF UsageIndex(doc, MonthOf(t)) = 0
    THEN [doc EXCEPT !.apiUsage = Append(@,
            [month |-> MonthOf(t),
             cropRecommendations |-> IF apiType = "cropRecommendations" THEN 1 ELSE 0,
             imageProcessing |-> IF apiType = "imageProcessing" THEN 1 ELSE 0,
             chatMessages |-> IF apiType = "chatMessages" THEN 1 ELSE 0,
             maxLimits |-> currentApiUsage(doc, t).maxLimits])]
    ELSE [doc EXCEPT !.apiUsage[UsageIndex(doc, MonthOf(t))][apiType] = @ + 1,
                     !.apiUsage[UsageIndex(doc, MonthOf(t))].maxLimits =
                         DefaultLimits(doc.subscriptionType)]

incrementAPIUsage(doc, apiType, t) ==
    IF UsageIndex(doc, MonthOf(t)) = 0
    THEN [doc EXCEPT !.apiUsage = Append(@,
            [month |-> MonthOf(t),
             cropRecommendations |-> IF apiType = "cropRecommendations" THEN 1 ELSE 0,
             imageProcessing |-> IF apiType = "imageProcessing" THEN 1 ELSE 0,
             chatMessages |-> IF apiType = "chatMessages" THEN 1 ELSE 0,
             maxLimits |-> currentApiUsage(doc, t).maxLimits])]
    ELSE [doc EXCEPT !.apiUsage[UsageIndex(doc, MonthOf(t))][apiType] = @ + 1]

\* ------------------------------------------------------------------- Init
Init ==
    /\ users = <<>>
    /\ nextId = 1
    /\ nextReset = 1
    /\ now = 0
    /\ ticks = 0
    /\ ops = 0
    /\ reqs = [r \in Slots |-> Idle]
    /\ issuedR = {}
    /\ issuedA = {}
    /\ removed = {}
    /\ consumed = {}
    /\ revokedAll = {}
    /\ usedResets = {}
    /\ counted = [k \in UsageKeys |-> 0]

\* the clock advances by d seconds
Tick(d) ==
    /\ ticks < MaxTicks
    /\ now' = now + d
    /\ ticks' = ticks + 1
    /\ UNCHANGED <<users, nextId, nextReset, ops, reqs, issuedR, issuedA,
                   removed, consumed, revokedAll, usedResets, counted>>

\* the store takes the collection to u
Commit(u) ==
    /\ users' = u
    /\ removed' = removed \cup Removals(u)

\* Model.findByIdAndUpdate(id, ...): a missing document is not an error
Updated(id, doc) == IF Exists(id) THEN [users EXCEPT ![id] = doc] ELSE users

NoStore == UNCHANGED <<users, removed, nextId, nextReset>>
NoHistory == UNCHANGED <<issuedR, issuedA, consumed, revokedAll, usedResets, counted>>
NoClock == UNCHANGED <<now, ticks>>

Begin(r, q) ==
    /\ Free(r)
    /\ reqs' = [reqs EXCEPT ![r] = q]
    /\ ops' = ops + 1
    /\ NoStore /\ NoHistory /\ NoClock

\* ------------------------------------------------------------------ signUp
StartSignUp(r) ==
    \E e \in Emails, u \in Usernames, p \in Passwords :
        Begin(r, [Idle EXCEPT !.op = "signUp", !.pc = "check",
                              !.email = e, !.username = u, !.password = p])

\* sign-up requests of several people: emails and usernames that differ
StartSignUpWide(r) ==
    \E e \in SignUpEmails, u \in SignUpUsernames :
        Begin(r, [Idle EXCEPT !.op = "signUp", !.pc = "check",
                              !.email = e, !.username = u, !.password = "pw1"])

\* User.findOne({$or: [email, username]}), the conflict errors, bcrypt.hash
signUpCheck(r) ==
    LET q == reqs[r] IN
    /\ q.op = "signUp" /\ q.pc = "check"
    /\ IF Matching(q.email, q.username) = {}
       THEN reqs' = [reqs EXCEPT ![r].pc = "create", ![r].password = Hash(q.password)]
       ELSE \E i \in Matching(q.email, q.username) :
              reqs' = [reqs EXCEPT ![r] =
                         IF users[i].email = q.email
                         THEN Fail(q, 409, "EMAIL_EXISTS")
                         ELSE Fail(q, 409, "USERNAME_EXISTS")]
    /\ NoStore /\ NoHistory /\ NoClock /\ UNCHANGED ops

\* signUpCreate on a collection without the unique indexes
signUpCreateNoIndex(r) ==
    LET q == reqs[r]
        doc == NewUser(q.email, q.username, q.password)
        tk == generateTokens(nextId, doc, now) IN
    /\ q.op = "signUp" /\ q.pc = "create"
    /\ nextId <= MaxAccounts
    /\ Commit(users @@ (nextId :> doc))
    /\ nextId' = nextId + 1
    /\ reqs' = [reqs EXCEPT ![r].pc = "push", ![r].uid = nextId,
                            ![r].newA = tk.accessToken,
                            ![r].newR = tk.refreshToken]
    /\ UNCHANGED nextReset
    /\ NoHistory /\ NoClock /\ UNCHANGED ops

\* User.create(userData) under the unique indexes, then generateTokens(user)
signUpCreate(r) ==
    LET q == reqs[r]
        doc == NewUser(q.email, q.username, q.password)
        tk == generateTokens(nextId, doc, now) IN
    /\ q.op = "signUp" /\ q.pc = "create"
    /\ IF Matching(q.email, q.username) # {}
       THEN /\ reqs' = [reqs EXCEPT ![r] = Fail(q, 409, "DUPLICATE_RESOURCE")]
            /\ NoStore
       ELSE /\ nextId <= MaxAccounts
            /\ Commit(users @@ (nextId :> doc))
            /\ nextId' = nextId + 1
            /\ reqs' = [reqs EXCEPT ![r].pc = "push", ![r].uid = nextId,
                                    ![r].newA = tk.accessToken,
                                    ![r].newR = tk.refreshToken]
            /\ UNCHANGED nextReset
    /\ NoHistory /\ NoClock /\ UNCHANGED ops

\* signUpPush storing the access token in place of the refresh token
signUpPushAccessToken(r) ==
    LET q == reqs[r] IN
    /\ q.op = "signUp" /\ q.pc = "push"
    /\ Commit(IF Exists(q.uid)
              THEN Updated(q.uid, [users[q.uid] EXCEPT
                       !.refreshTokens = Push(@, q.newA), !.rtWrites = @ + 1])
              ELSE users)
    /\ reqs' = [reqs EXCEPT ![r].pc = "log"]
    /\ UNCHANGED <<nextId, nextReset, ops>> /\ NoHistory /\ NoClock

\* findByIdAndUpdate(user._id, {$push: {refreshTokens: refreshToken}})
signUpPush(r) ==
    LET q == reqs[r] IN
    /\ q.op = "signUp" /\ q.pc = "push"
    /\ Commit(IF Exists(q.uid)
              THEN Updated(q.uid, [users[q.uid] EXCEPT
                       !.refreshTokens = Push(@, q.newR), !.rtWrites = @ + 1])
              ELSE users)
    /\ reqs' = [reqs EXCEPT ![r].pc = "log"]
    /\ UNCHANGED <<nextId, nextReset, ops>> /\ NoHistory /\ NoClock

\* the loginHistory update and the 201 response
signUpRespond(r) ==
    LET q == reqs[r] IN
    /\ q.op = "signUp" /\ q.pc = "log"
    /\ reqs' = [reqs EXCEPT ![r] =
                    setTokenCookies(Respond(q, 201, "OK", q.newA, q.newR))]
    /\ issuedR' = issuedR \cup {q.newR}
    /\ issuedA' = issuedA \cup {q.newA}
    /\ NoStore /\ NoClock /\ UNCHANGED <<ops, consumed, revokedAll, usedResets, counted>>

\* ------------------------------------------------------------------ signIn
StartSignIn(r) ==
    \E e \in Emails, p \in Passwords, rememberMe \in BOOLEAN :
        Begin(r, [Idle EXCEPT !.op = "signIn", !.pc = "find",
                              !.email = e, !.password = p,
                              !.rememberMe = rememberMe])

\* signInFind signing the refresh token for thirty days when rememberMe is set
signInFindRememberExtends(r) ==
    LET q == reqs[r]
        m == {i \in DOMAIN users : users[i].email = q.email} IN
    /\ q.op = "signIn" /\ q.pc = "find"
    /\ IF m = {}
       THEN reqs' = [reqs EXCEPT ![r] =
                 FailMessage(q, 401, "INVALID_CREDENTIALS", "Invalid email or password")]
       ELSE \E i \in m :
              reqs' = [reqs EXCEPT ![r] =
                 IF ~Compare(q.password, users[i].password)
                 THEN FailMessage(q, 401, "INVALID_CREDENTIALS",
                                  "Invalid email or password")
                 ELSE [q EXCEPT !.pc = "push", !.uid = i, !.password = "",
                          !.newA = generateTokens(i, users[i], now).accessToken,
                          !.newR = IF q.rememberMe
                                   THEN Sign(i, users[i].email, <<>>, JWT_REFRESH_SECRET,
                                             EXTENDED_COOKIE_MAX_AGE, now)
                                   ELSE generateTokens(i, users[i], now).refreshToken]]
    /\ NoStore /\ NoHistory /\ NoClock /\ UNCHANGED ops

\* signInFind answering a missing account with its own error
signInFindRevealsMissing(r) ==
    LET q == reqs[r]
        m == {i \in DOMAIN users : users[i].email = q.email} IN
    /\ q.op = "signIn" /\ q.pc = "find"
    /\ IF m = {}
       THEN reqs' = [reqs EXCEPT ![r] =
                 FailMessage(q, 404, "USER_NOT_FOUND", "User not found")]
       ELSE \E i \in m :
              reqs' = [reqs EXCEPT ![r] =
                 IF ~Compare(q.password, users[i].password)
                 THEN FailMessage(q, 401, "INVALID_CREDENTIALS",
                                  "Invalid email or password")
                 ELSE [q EXCEPT !.pc = "push", !.uid = i, !.password = "",
                          !.newA = generateTokens(i, users[i], now).accessToken,
                          !.newR = generateTokens(i, users[i], now).refreshToken]]
    /\ NoStore /\ NoHistory /\ NoClock /\ UNCHANGED ops

\* User.findOne({email}), bcrypt.compare, generateTokens(user)
signInFind(r) ==
    LET q == reqs[r]
        m == {i \in DOMAIN users : users[i].email = q.email} IN
    /\ q.op = "signIn" /\ q.pc = "find"
    /\ IF m = {}
       THEN reqs' = [reqs EXCEPT ![r] =
                 FailMessage(q, 401, "INVALID_CREDENTIALS", "Invalid email or password")]
       ELSE \E i \in m :
              reqs' = [reqs EXCEPT ![r] =
                 IF ~Compare(q.password, users[i].password)
                 THEN FailMessage(q, 401, "INVALID_CREDENTIALS",
                                  "Invalid email or password")
                 ELSE [q EXCEPT !.pc = "push", !.uid = i, !.password = "",
                          !.newA = generateTokens(i, users[i], now).accessToken,
                          !.newR = generateTokens(i, users[i], now).refreshToken]]
    /\ NoStore /\ NoHistory /\ NoClock /\ UNCHANGED ops

\* findByIdAndUpdate(user._id, {$push: {refreshTokens: refreshToken}})
signInPush(r) ==
    LET q == reqs[r] IN
    /\ q.op = "signIn" /\ q.pc = "push"
    /\ Commit(IF Exists(q.uid)
              THEN Updated(q.uid, [users[q.uid] EXCEPT
                       !.refreshTokens = Push(@, q.newR), !.rtWrites = @ + 1])
              ELSE users)
    /\ reqs' = [reqs EXCEPT ![r].pc = "log"]
    /\ UNCHANGED <<nextId, nextReset, ops>> /\ NoHistory /\ NoClock

\* the loginHistory update and the 200 response
signInRespond(r) ==
    LET q == reqs[r] IN
    /\ q.op = "signIn" /\ q.pc = "log"
    /\ reqs' = [reqs EXCEPT ![r] =
          signInCookies(Respond(q, 200, "OK", q.newA, q.newR), q.rememberMe)]
    /\ issuedR' = issuedR \cup {q.newR}
    /\ issuedA' = issuedA \cup {q.newA}
    /\ NoStore /\ NoClock /\ UNCHANGED <<ops, consumed, revokedAll, usedResets, counted>>

\* ------------------------------------------------------------ refreshToken
StartRefresh(r) ==
    \E t \in RefreshInputs :
        Begin(r, [Idle EXCEPT !.op = "refreshToken", !.pc = "verify", !.rtoken = t])

\* RefreshLookup querying by _id alone
RefreshLookupByIdOnly(tok) == {i \in DOMAIN users : i = tok.id}

\* the document refreshToken's findOne({_id, refreshTokens: token}) returns
RefreshLookup(tok) ==
    {i \in DOMAIN users : i = tok.id /\ tok \in Range(users[i].refreshTokens)}

\* the token check, jwt.verify, the findOne and generateTokens(user)
refreshTokenVerify(r) ==
    LET q == reqs[r]
        v == Verify(q.rtoken, JWT_REFRESH_SECRET, now)
        peers == {s \in Slots \ {r} : /\ reqs[s].op = "refreshToken"
                                      /\ reqs[s].pc = "rotate"
                                      /\ reqs[s].rtoken = q.rtoken} IN
    /\ q.op = "refreshToken" /\ q.pc = "verify"
    /\ IF q.rtoken = NoTok
       THEN reqs' = [reqs EXCEPT ![r] = Fail(q, 401, "NO_REFRESH_TOKEN")]
       ELSE IF v # "ok"
       THEN reqs' = [reqs EXCEPT ![r] = Fail(q, 401, RefreshCatch(v))]
       ELSE IF RefreshLookup(q.rtoken) = {}
       THEN reqs' = [reqs EXCEPT ![r] = Fail(q, 401, "INVALID_REFRESH_TOKEN")]
       ELSE \E i \in RefreshLookup(q.rtoken) :
              reqs' = [s \in Slots |->
                 IF s = r
                 THEN [q EXCEPT !.pc = "rotate", !.uid = i,
                          !.raced = (peers # {}),
                          !.newA = generateTokens(i, users[i], now).accessToken,
                          !.newR = generateTokens(i, users[i], now).refreshToken]
                 ELSE IF s \in peers THEN [reqs[s] EXCEPT !.raced = TRUE]
                 ELSE reqs[s]]
    /\ NoStore /\ NoHistory /\ NoClock /\ UNCHANGED ops

\* findByIdAndUpdate(user._id, {$pull: old, $push: new}) applied by the store
\* as written (both operators, in one document update), and the 200 response
refreshTokenRotate(r) ==
    LET q == reqs[r] IN
    /\ q.op = "refreshToken" /\ q.pc = "rotate"
    /\ Commit(IF Exists(q.uid)
              THEN Updated(q.uid, [users[q.uid] EXCEPT
                       !.refreshTokens = Push(Pull(@, q.rtoken), q.newR),
                       !.rtWrites = @ + 1])
              ELSE users)
    /\ reqs' = [reqs EXCEPT ![r] =
                    setTokenCookies(Respond(q, 200, "OK", q.newA, q.newR))]
    /\ issuedR' = issuedR \cup {q.newR}
    /\ issuedA' = issuedA \cup {q.newA}
    /\ consumed' = consumed \cup {q.rtoken}
    /\ UNCHANGED <<nextId, nextReset, ops, revokedAll, usedResets, counted>> /\ NoClock

\* the same update refused by the store: $pull and $push name the same path
\* (ConflictingUpdateOperators); handleDbOperation turns it into DATABASE_ERROR
refreshTokenConflict(r) ==
    LET q == reqs[r] IN
    /\ q.op = "refreshToken" /\ q.pc = "rotate"
    /\ reqs' = [reqs EXCEPT ![r] = Fail(q, 500, "DATABASE_ERROR")]
    /\ NoStore /\ NoHistory /\ NoClock /\ UNCHANGED ops

\* -------------------------------------------------------- authenticateToken
\* a gate that also wants the account to hold a refresh token
authenticateTokenSessionBound(r) ==
    LET q == reqs[r]
        v == Verify(q.atoken, JWT_SECRET, now) IN
    /\ q.pc = "auth"
    /\ reqs' = [reqs EXCEPT ![r] =
          IF q.atoken = NoTok THEN Fail(q, 401, "NO_ACCESS_TOKEN")
          ELSE IF v # "ok" THEN Fail(q, 401, AccessCatch(v))
          ELSE IF ~Exists(q.atoken.id) THEN Fail(q, 401, "USER_NOT_FOUND")
          ELSE IF users[q.atoken.id].refreshTokens = <<>>
          THEN Fail(q, 401, "INVALID_ACCESS_TOKEN")
          ELSE Onward([q EXCEPT !.uid = q.atoken.id])]
    /\ NoStore /\ NoHistory /\ NoClock /\ UNCHANGED ops

\* the gate in front of every protected route
authenticateToken(r) ==
    LET q == reqs[r]
        v == Verify(q.atoken, JWT_SECRET, now) IN
    /\ q.pc = "auth"
    /\ reqs' = [reqs EXCEPT ![r] =
          IF q.atoken = NoTok THEN Fail(q, 401, "NO_ACCESS_TOKEN")
          ELSE IF v # "ok" THEN Fail(q, 401, AccessCatch(v))
          ELSE IF ~Exists(q.atoken.id) THEN Fail(q, 401, "USER_NOT_FOUND")
          ELSE Onward([q EXCEPT !.uid = q.atoken.id])]
    /\ NoStore /\ NoHistory /\ NoClock /\ UNCHANGED ops

\* ---------------------------------------------------------------- optionalAuth
\* a request to a route behind optionalAuth: the token of the Authorization
\* header or of the accessToken cookie
StartOptional(r) ==
    \E a \in AccessInputs :
        Begin(r, [Idle EXCEPT !.op = "optional", !.pc = "optional", !.atoken = a])

\* optionalAuth attaching the user of every token that verifies
optionalAuthAttachUnchecked(r) ==
    LET q == reqs[r] IN
    /\ q.pc = "optional"
    /\ reqs' = [reqs EXCEPT ![r] =
          IF q.atoken = NoTok THEN Onward(q)
          ELSE IF Verify(q.atoken, JWT_SECRET, now) # "ok" THEN Onward(q)
          ELSE Onward([q EXCEPT !.uid = q.atoken.id])]
    /\ NoStore /\ NoHistory /\ NoClock /\ UNCHANGED ops

\* optionalAuth: jwt.verify and User.findById inside try, the catch only
\* logs, next() is the last statement
optionalAuth(r) ==
    LET q == reqs[r] IN
    /\ q.pc = "optional"
    /\ reqs' = [reqs EXCEPT ![r] =
          IF q.atoken = NoTok THEN Onward(q)
          ELSE IF Verify(q.atoken, JWT_SECRET, now) # "ok" THEN Onward(q)
          ELSE IF ~Exists(q.atoken.id) THEN Onward(q)
          ELSE Onward([q EXCEPT !.uid = q.atoken.id])]
    /\ NoStore /\ NoHistory /\ NoClock /\ UNCHANGED ops

\* the operation behind optionalAuth answers with or without req.user
optionalOperation(r) ==
    LET q == reqs[r] IN
    /\ q.op = "optional" /\ q.pc = "handler"
    /\ reqs' = [reqs EXCEPT ![r] =
          Fail(q, 200, IF q.uid # 0 THEN "AUTHENTICATED" ELSE "ANONYMOUS")]
    /\ NoStore /\ NoHistory /\ NoClock /\ UNCHANGED ops

\* -------------------------------------------------------------- getProfile
StartGetProfile(r) ==
    \E a \in AccessInputs :
        Begin(r, [Idle EXCEPT !.op = "getProfile", !.pc = "auth", !.atoken = a])

getProfile(r) ==
    LET q == reqs[r] IN
    /\ q.op = "getProfile" /\ q.pc = "handler"
    /\ reqs' = [reqs EXCEPT ![r] =
          IF ~Exists(q.uid) THEN Fail(q, 404, "USER_NOT_FOUND")
          ELSE Fail(q, 200, "OK")]
    /\ NoStore /\ NoHistory /\ NoClock /\ UNCHANGED ops

\* ----------------------------------------------------------------- signOut
StartSignOut(r) ==
    \E a \in AccessInputs, t \in RefreshInputs :
        Begin(r, [Idle EXCEPT !.op = "signOut", !.pc = "auth",
                              !.atoken = a, !.rtoken = t])

\* signOut emptying the set in place of pulling the cookie's token
signOutClearsAll(r) ==
    LET q == reqs[r] IN
    /\ q.op = "signOut" /\ q.pc = "handler"
    /\ Commit(IF q.rtoken # NoTok /\ Exists(q.uid)
              THEN Updated(q.uid, [users[q.uid] EXCEPT
                       !.refreshTokens = <<>>, !.rtWrites = @ + 1])
              ELSE users)
    /\ reqs' = [reqs EXCEPT ![r] = Fail(q, 200, "OK")]
    /\ UNCHANGED <<nextId, nextReset, ops>> /\ NoHistory /\ NoClock

\* findByIdAndUpdate(userId, {$pull: {refreshTokens: cookie}}) when a cookie
\* is present, and the 200 response
signOut(r) ==
    LET q == reqs[r] IN
    /\ q.op = "signOut" /\ q.pc = "handler"
    /\ Commit(IF q.rtoken # NoTok /\ Exists(q.uid)
              THEN Updated(q.uid, [users[q.uid] EXCEPT
                       !.refreshTokens = Pull(@, q.rtoken), !.rtWrites = @ + 1])
              ELSE users)
    /\ reqs' = [reqs EXCEPT ![r] = Fail(q, 200, "OK")]
    /\ UNCHANGED <<nextId, nextReset, ops>> /\ NoHistory /\ NoClock

\* ------------------------------------------------------- signOutAllDevices
StartSignOutAll(r) ==
    \E a \in AccessInputs :
        Begin(r, [Idle EXCEPT !.op = "signOutAllDevices", !.pc = "auth", !.atoken = a])

\* findByIdAndUpdate(userId, {refreshTokens: []}) and the 200 response
signOutAllDevices(r) ==
    LET q == reqs[r] IN
    /\ q.op = "signOutAllDevices" /\ q.pc = "handler"
    /\ Commit(IF Exists(q.uid)
              THEN Updated(q.uid, [users[q.uid] EXCEPT
                       !.refreshTokens = <<>>, !.rtWrites = @ + 1])
              ELSE users)
    /\ reqs' = [reqs EXCEPT ![r] = Fail(q, 200, "OK")]
    /\ revokedAll' = revokedAll \cup {t \in issuedR : t.id = q.uid}
    /\ UNCHANGED <<nextId, nextReset, ops, issuedR, issuedA, consumed, usedResets,
                   counted>> /\ NoClock

\* ---------------------------------------------------------- changePassword
\* the body schema refuses a new password equal to the current one
StartChangePassword(r) ==
    \E a \in AccessInputs, c \in Passwords, n \in Passwords :
        /\ c # n
        /\ Begin(r, [Idle EXCEPT !.op = "changePassword", !.pc = "auth",
                                 !.atoken = a, !.password = c, !.newPassword = n])

\* changePasswordFind without the bcrypt.compare
changePasswordFindAnyPassword(r) ==
    LET q == reqs[r] IN
    /\ q.op = "changePassword" /\ q.pc = "handler"
    /\ reqs' = [reqs EXCEPT ![r] =
          IF ~Exists(q.uid) THEN Fail(q, 404, "USER_NOT_FOUND")
          ELSE [q EXCEPT !.pc = "update", !.password = "",
                         !.newPassword = Hash(q.newPassword)]]
    /\ NoStore /\ NoHistory /\ NoClock /\ UNCHANGED ops

\* User.findById(userId).select('+password'), bcrypt.compare, bcrypt.hash
changePasswordFind(r) ==
    LET q == reqs[r] IN
    /\ q.op = "changePassword" /\ q.pc = "handler"
    /\ reqs' = [reqs EXCEPT ![r] =
          IF ~Exists(q.uid) THEN Fail(q, 404, "USER_NOT_FOUND")
          ELSE IF ~Compare(q.password, users[q.uid].password)
          THEN Fail(q, 400, "INVALID_CURRENT_PASSWORD")
          ELSE [q EXCEPT !.pc = "update", !.password = "",
                         !.newPassword = Hash(q.newPassword)]]
    /\ NoStore /\ NoHistory /\ NoClock /\ UNCHANGED ops

\* changePasswordUpdate writing the password only
changePasswordUpdateKeepsTokens(r) ==
    LET q == reqs[r] IN
    /\ q.op = "changePassword" /\ q.pc = "update"
    /\ Commit(IF Exists(q.uid)
              THEN Updated(q.uid, [users[q.uid] EXCEPT !.password = q.newPassword])
              ELSE users)
    /\ reqs' = [reqs EXCEPT ![r] = Fail(q, 200, "OK")]
    /\ UNCHANGED <<nextId, nextReset, ops>> /\ NoHistory /\ NoClock

\* findByIdAndUpdate(userId, {password, refreshTokens: []}) and the response
changePasswordUpdate(r) ==
    LET q == reqs[r] IN
    /\ q.op = "changePassword" /\ q.pc = "update"
    /\ Commit(IF Exists(q.uid)
              THEN Updated(q.uid, [users[q.uid] EXCEPT
                       !.password = q.newPassword,
                       !.refreshTokens = <<>>, !.rtWrites = @ + 1])
              ELSE users)
    /\ reqs' = [reqs EXCEPT ![r] = Fail(q, 200, "OK")]
    /\ UNCHANGED <<nextId, nextReset, ops>> /\ NoHistory /\ NoClock

\* ---------------------------------------------------------- forgotPassword
StartForgotPassword(r) ==
    \E e \in Emails :
        Begin(r, [Idle EXCEPT !.op = "forgotPassword", !.pc = "find", !.email = e])

\* the message of both forgotPassword responses
ResetSentMessage ==
    "If an account with this email exists, a password reset link has been sent."

\* forgotPasswordFind answering a missing account with an error
forgotPasswordFindRevealsMissing(r) ==
    LET q == reqs[r]
        m == {i \in DOMAIN users : users[i].email = q.email} IN
    /\ q.op = "forgotPassword" /\ q.pc = "find"
    /\ IF m = {}
       THEN /\ reqs' = [reqs EXCEPT ![r] =
                         FailMessage(q, 404, "USER_NOT_FOUND", "User not found")]
            /\ UNCHANGED nextReset
       ELSE /\ \E i \in m :
                 reqs' = [reqs EXCEPT ![r].pc = "update", ![r].uid = i,
                                      ![r].resetToken = nextReset,
                                      ![r].resetExp = now + RESET_EXPIRES_IN]
            /\ nextReset' = nextReset + 1
    /\ UNCHANGED <<users, removed, nextId, ops>> /\ NoHistory /\ NoClock

\* User.findOne({email}); generatePasswordResetToken draws a fresh value
forgotPasswordFind(r) ==
    LET q == reqs[r]
        m == {i \in DOMAIN users : users[i].email = q.email} IN
    /\ q.op = "forgotPassword" /\ q.pc = "find"
    /\ IF m = {}
       THEN /\ reqs' = [reqs EXCEPT ![r] = FailMessage(q, 200, "OK", ResetSentMessage)]
            /\ UNCHANGED nextReset
       ELSE /\ \E i \in m :
                 reqs' = [reqs EXCEPT ![r].pc = "update", ![r].uid = i,
                                      ![r].resetToken = nextReset,
                                      ![r].resetExp = now + RESET_EXPIRES_IN]
            /\ nextReset' = nextReset + 1
    /\ UNCHANGED <<users, removed, nextId, ops>> /\ NoHistory /\ NoClock

\* forgotPasswordUpdate leaving an outstanding token in place
forgotPasswordUpdateKeepsFirst(r) ==
    LET q == reqs[r] IN
    /\ q.op = "forgotPassword" /\ q.pc = "update"
    /\ Commit(IF Exists(q.uid) /\ users[q.uid].passwordResetToken = 0
              THEN Updated(q.uid, [users[q.uid] EXCEPT
                       !.passwordResetToken = q.resetToken,
                       !.passwordResetExpiry = q.resetExp])
              ELSE users)
    /\ reqs' = [reqs EXCEPT ![r] = FailMessage(q, 200, "OK", ResetSentMessage)]
    /\ UNCHANGED <<nextId, nextReset, ops>> /\ NoHistory /\ NoClock

\* findByIdAndUpdate(user._id, {passwordResetToken, passwordResetExpiry})
forgotPasswordUpdate(r) ==
    LET q == reqs[r] IN
    /\ q.op = "forgotPassword" /\ q.pc = "update"
    /\ Commit(IF Exists(q.uid)
              THEN Updated(q.uid, [users[q.uid] EXCEPT
                       !.passwordResetToken = q.resetToken,
                       !.passwordResetExpiry = q.resetExp])
              ELSE users)
    /\ reqs' = [reqs EXCEPT ![r] = FailMessage(q, 200, "OK", ResetSentMessage)]
    /\ UNCHANGED <<nextId, nextReset, ops>> /\ NoHistory /\ NoClock

\* ----------------------------------------------------------- resetPassword
\* reset tokens a client can present: the ones generated so far and a wrong one
ResetInputs == (1 .. (nextReset - 1)) \cup {-1}

StartResetPassword(r) ==
    \E t \in ResetInputs, n \in Passwords :
        Begin(r, [Idle EXCEPT !.op = "resetPassword", !.pc = "find",
                              !.resetToken = t, !.newPassword = n])

\* ResetLookup matching the token alone
ResetLookupAnyTime(token) ==
    {i \in DOMAIN users : users[i].passwordResetToken = token}

\* the documents findOne({passwordResetToken, passwordResetExpiry: {$gt: now}})
\* can return
ResetLookup(token) ==
    {i \in DOMAIN users : /\ users[i].passwordResetToken = token
                          /\ users[i].passwordResetExpiry > now}

\* the findOne of resetPassword, bcrypt.hash
resetPasswordFind(r) ==
    LET q == reqs[r]
        m == ResetLookup(q.resetToken) IN
    /\ q.op = "resetPassword" /\ q.pc = "find"
    /\ IF m = {}
       THEN reqs' = [reqs EXCEPT ![r] = Fail(q, 400, "INVALID_RESET_TOKEN")]
       ELSE \E i \in m :
              reqs' = [reqs EXCEPT ![r].pc = "update", ![r].uid = i,
                                   ![r].newPassword = Hash(q.newPassword)]
    /\ NoStore /\ NoHistory /\ NoClock /\ UNCHANGED ops

\* findByIdAndUpdate(user._id, {password, passwordResetToken: undefined,
\* passwordResetExpiry: undefined, refreshTokens: []}) where the update
\* casting writes the undefined keys as null
resetPasswordUpdate(r) ==
    LET q == reqs[r] IN
    /\ q.op = "resetPassword" /\ q.pc = "update"
    /\ Commit(IF Exists(q.uid)
              THEN Updated(q.uid, [users[q.uid] EXCEPT
                       !.password = q.newPassword,
                       !.passwordResetToken = 0,
                       !.passwordResetExpiry = 0,
                       !.refreshTokens = <<>>, !.rtWrites = @ + 1])
              ELSE users)
    /\ reqs' = [reqs EXCEPT ![r] = Fail(q, 200, "OK")]
    /\ usedResets' = usedResets \cup {q.resetToken}
    /\ UNCHANGED <<nextId, nextReset, ops, issuedR, issuedA, consumed, revokedAll,
                   counted>>
    /\ NoClock

\* the same update where the update casting strips the undefined keys, so
\* that passwordResetToken and passwordResetExpiry keep their values
resetPasswordUpdateStripped(r) ==
    LET q == reqs[r] IN
    /\ q.op = "resetPassword" /\ q.pc = "update"
    /\ Commit(IF Exists(q.uid)
              THEN Updated(q.uid, [users[q.uid] EXCEPT
                       !.password = q.newPassword,
                       !.refreshTokens = <<>>, !.rtWrites = @ + 1])
              ELSE users)
    /\ reqs' = [reqs EXCEPT ![r] = Fail(q, 200, "OK")]
    /\ usedResets' = usedResets \cup {q.resetToken}
    /\ UNCHANGED <<nextId, nextReset, ops, issuedR, issuedA, consumed, revokedAll,
                   counted>>
    /\ NoClock

\* ----------------------------------------------------------- deleteAccount
StartDeleteAccount(r) ==
    \E a \in AccessInputs, p \in Passwords \cup {""} :
        Begin(r, [Idle EXCEPT !.op = "deleteAccount", !.pc = "auth",
                              !.atoken = a, !.password = p])

\* deleteAccountFind without the bcrypt.compare
deleteAccountFindAnyPassword(r) ==
    LET q == reqs[r] IN
    /\ q.op = "deleteAccount" /\ q.pc = "handler"
    /\ reqs' = [reqs EXCEPT ![r] =
          IF q.password = "" THEN Fail(q, 400, "PASSWORD_REQUIRED")
          ELSE IF ~Exists(q.uid) THEN Fail(q, 404, "USER_NOT_FOUND")
          ELSE [q EXCEPT !.pc = "delete", !.password = ""]]
    /\ NoStore /\ NoHistory /\ NoClock /\ UNCHANGED ops

\* the password presence check, User.findById(userId), bcrypt.compare
deleteAccountFind(r) ==
    LET q == reqs[r] IN
    /\ q.op = "deleteAccount" /\ q.pc = "handler"
    /\ reqs' = [reqs EXCEPT ![r] =
          IF q.password = "" THEN Fail(q, 400, "PASSWORD_REQUIRED")
          ELSE IF ~Exists(q.uid) THEN Fail(q, 404, "USER_NOT_FOUND")
          ELSE IF ~Compare(q.password, users[q.uid].password)
          THEN Fail(q, 400, "INVALID_PASSWORD")
          ELSE [q EXCEPT !.pc = "delete", !.password = ""]]
    /\ NoStore /\ NoHistory /\ NoClock /\ UNCHANGED ops

\* User.findByIdAndDelete(userId) and the response
deleteAccountDelete(r) ==
    LET q == reqs[r] IN
    /\ q.op = "deleteAccount" /\ q.pc = "delete"
    /\ Commit([i \in DOMAIN users \ {q.uid} |-> users[i]])
    /\ reqs' = [reqs EXCEPT ![r] = Fail(q, 200, "OK")]
    /\ UNCHANGED <<nextId, nextReset, ops>> /\ NoHistory /\ NoClock

\* ------------------------------------------------------------ usage request
\* an authenticated request that records one use of an API category: it loads
\* the account, calls incrementAPIUsage on it and persists the document
StartRecordUsage(r) ==
    \E i \in DOMAIN users, a \in ApiTypes :
        Begin(r, [Idle EXCEPT !.op = "recordUsage", !.pc = "load",
                              !.uid = i, !.apiType = a])

\* User.findById(userId) and incrementAPIUsage(apiType) on the loaded document
recordUsageLoad(r) ==
    LET q == reqs[r] IN
    /\ q.op = "recordUsage" /\ q.pc = "load"
    /\ reqs' = [reqs EXCEPT ![r] =
          IF ~Exists(q.uid) THEN Fail(q, 404, "USER_NOT_FOUND")
          ELSE [q EXCEPT !.pc = "save",
                         !.loadedVersion = users[q.uid].version,
                         !.month = MonthOf(now),
                         !.usageIndex = UsageIndex(users[q.uid], MonthOf(now)),
                         !.mem = incrementAPIUsage(users[q.uid], q.apiType, now).apiUsage]]
    /\ NoStore /\ NoHistory /\ NoClock /\ UNCHANGED ops

\* document.save(): the modified paths are written, a new array element by
\* $push (which increments the version key), a changed counter of an existing
\* element by $set under the loaded version key
recordUsageSave(r) ==
    LET q == reqs[r]
        idx == q.usageIndex
        month == q.mem[IF idx = 0 THEN Len(q.mem) ELSE idx].month
        ok == Exists(q.uid) /\ (idx # 0 => users[q.uid].version = q.loadedVersion) IN
    /\ q.op = "recordUsage" /\ q.pc = "save"
    /\ IF ~ok
       THEN /\ reqs' = [reqs EXCEPT ![r] = Fail(q, 500, "VersionError")]
            /\ NoStore /\ UNCHANGED counted
       ELSE /\ Commit(Updated(q.uid,
                 IF idx = 0
                 THEN [users[q.uid] EXCEPT !.apiUsage = Append(@, q.mem[Len(q.mem)]),
                                           !.version = @ + 1]
                 ELSE [users[q.uid] EXCEPT !.apiUsage[idx][q.apiType] =
                                              q.mem[idx][q.apiType]]))
            /\ reqs' = [reqs EXCEPT ![r] = Fail(q, 200, "OK")]
            /\ counted' = [counted EXCEPT ![<<q.uid, month, q.apiType>>] = @ + 1]
            /\ UNCHANGED <<nextId, nextReset>>
    /\ UNCHANGED <<ops, issuedR, issuedA, consumed, revokedAll, usedResets>>
    /\ NoClock

\* ----------------------------------------------------------- checkAPIUsage
\* the quota gate: req.user.id of the session (0 when no user is attached)
StartCheckUsage(r) ==
    \E i \in DOMAIN users \cup {0}, a \in ApiTypes :
        Begin(r, [Idle EXCEPT !.op = "checkAPIUsage", !.pc = "quota",
                              !.uid = i, !.apiType = a])

\* a quota gate that counts the request it lets through
checkAPIUsageCounting(r) ==
    LET q == reqs[r]
        passes == /\ q.uid # 0 /\ Exists(q.uid)
                  /\ ~hasExceededAPILimit(users[q.uid], q.apiType, now) IN
    /\ q.pc = "quota"
    /\ reqs' = [reqs EXCEPT ![r] =
          IF q.uid = 0 THEN Fail(q, 401, "NOT_AUTHENTICATED")
          ELSE IF ~Exists(q.uid) THEN Fail(q, 404, "USER_NOT_FOUND")
          ELSE IF hasExceededAPILimit(users[q.uid], q.apiType, now)
          THEN Fail(q, 429, "API_LIMIT_EXCEEDED")
          ELSE IF q.op = "checkAPIUsage" THEN Fail(q, 200, "NEXT")
          ELSE Onward(q)]
    /\ users' = IF passes
                THEN [users EXCEPT ![q.uid] = incrementAPIUsage(@, q.apiType, now)]
                ELSE users
    /\ counted' = IF passes
                  THEN [counted EXCEPT ![<<q.uid, MonthOf(now), q.apiType>>] = @ + 1]
                  ELSE counted
    /\ UNCHANGED <<removed, nextId, nextReset, issuedR, issuedA, consumed,
                   revokedAll, usedResets, ops>>
    /\ NoClock

\* User.findById(userId), hasExceededAPILimit(apiType), next()
checkAPIUsage(r) ==
    LET q == reqs[r] IN
    /\ q.pc = "quota"
    /\ reqs' = [reqs EXCEPT ![r] =
          IF q.uid = 0 THEN Fail(q, 401, "NOT_AUTHENTICATED")
          ELSE IF ~Exists(q.uid) THEN Fail(q, 404, "USER_NOT_FOUND")
          ELSE IF hasExceededAPILimit(users[q.uid], q.apiType, now)
          THEN Fail(q, 429, "API_LIMIT_EXCEEDED")
          ELSE IF q.op = "checkAPIUsage" THEN Fail(q, 200, "NEXT")
          ELSE Onward(q)]
    /\ NoStore /\ NoHistory /\ NoClock /\ UNCHANGED ops

\* ------------------------------------------------------- the other gates
FarmerTypes == {"individual", "commercial", "cooperative", "research"}

\* subscriptionHierarchy of checkSubscription
subscriptionHierarchy(tier) ==
    CASE tier = "free" -> 0
      [] tier = "basic" -> 1
      [] tier = "premium" -> 2
      [] tier = "enterprise" -> 3

\* authorizeFarmerType deciding on the farmerType claim of the access token
authorizeFarmerTypeFromToken(r) ==
    LET q == reqs[r] IN
    /\ q.pc = "farmer"
    /\ reqs' = [reqs EXCEPT ![r] =
          IF q.uid = 0 THEN Fail(q, 401, "NOT_AUTHENTICATED")
          ELSE IF ~Exists(q.uid) THEN Fail(q, 404, "USER_NOT_FOUND")
          ELSE IF q.atoken.extra[2] \notin q.allowedTypes
          THEN Fail(q, 403, "INSUFFICIENT_PERMISSIONS")
          ELSE Onward(q)]
    /\ NoStore /\ NoHistory /\ NoClock /\ UNCHANGED ops

\* authorizeFarmerType(allowedTypes)
authorizeFarmerType(r) ==
    LET q == reqs[r] IN
    /\ q.pc = "farmer"
    /\ reqs' = [reqs EXCEPT ![r] =
          IF q.uid = 0 THEN Fail(q, 401, "NOT_AUTHENTICATED")
          ELSE IF ~Exists(q.uid) THEN Fail(q, 404, "USER_NOT_FOUND")
          ELSE IF users[q.uid].farmerType \notin q.allowedTypes
          THEN Fail(q, 403, "INSUFFICIENT_PERMISSIONS")
          ELSE Onward(q)]
    /\ NoStore /\ NoHistory /\ NoClock /\ UNCHANGED ops

\* checkSubscription comparing the tiers before looking at the expiry
checkSubscriptionTierFirst(r) ==
    LET q == reqs[r] IN
    /\ q.pc = "subscription"
    /\ reqs' = [reqs EXCEPT ![r] =
          IF q.uid = 0 THEN Fail(q, 401, "NOT_AUTHENTICATED")
          ELSE IF ~Exists(q.uid) THEN Fail(q, 404, "USER_NOT_FOUND")
          ELSE IF subscriptionHierarchy(users[q.uid].subscriptionType)
                     < subscriptionHierarchy(q.required)
          THEN Fail(q, 403, "INSUFFICIENT_SUBSCRIPTION")
          ELSE IF /\ users[q.uid].subscriptionExpiry # NoExpiry
                  /\ users[q.uid].subscriptionExpiry < now
          THEN Fail(q, 403, "SUBSCRIPTION_EXPIRED")
          ELSE Onward(q)]
    /\ NoStore /\ NoHistory /\ NoClock /\ UNCHANGED ops

\* checkSubscription(requiredSubscription)
checkSubscription(r) ==
    LET q == reqs[r] IN
    /\ q.pc = "subscription"
    /\ reqs' = [reqs EXCEPT ![r] =
          IF q.uid = 0 THEN Fail(q, 401, "NOT_AUTHENTICATED")
          ELSE IF ~Exists(q.uid) THEN Fail(q, 404, "USER_NOT_FOUND")
          ELSE IF /\ users[q.uid].subscriptionExpiry # NoExpiry
                  /\ users[q.uid].subscriptionExpiry < now
          THEN Fail(q, 403, "SUBSCRIPTION_EXPIRED")
          ELSE IF subscriptionHierarchy(users[q.uid].subscriptionType)
                     < subscriptionHierarchy(q.required)
          THEN Fail(q, 403, "INSUFFICIENT_SUBSCRIPTION")
          ELSE Onward(q)]
    /\ NoStore /\ NoHistory /\ NoClock /\ UNCHANGED ops

\* requireEmailVerification letting an unverified account through
requireEmailVerificationAdvisory(r) ==
    LET q == reqs[r] IN
    /\ q.pc = "email"
    /\ reqs' = [reqs EXCEPT ![r] =
          IF q.uid = 0 THEN Fail(q, 401, "NOT_AUTHENTICATED")
          ELSE IF ~Exists(q.uid) THEN Fail(q, 404, "USER_NOT_FOUND")
          ELSE Onward(q)]
    /\ NoStore /\ NoHistory /\ NoClock /\ UNCHANGED ops

\* requireEmailVerification
requireEmailVerification(r) ==
    LET q == reqs[r] IN
    /\ q.pc = "email"
    /\ reqs' = [reqs EXCEPT ![r] =
          IF q.uid = 0 THEN Fail(q, 401, "NOT_AUTHENTICATED")
          ELSE IF ~Exists(q.uid) THEN Fail(q, 404, "USER_NOT_FOUND")
          ELSE IF ~users[q.uid].isEmailVerified
          THEN Fail(q, 403, "EMAIL_VERIFICATION_REQUIRED")
          ELSE Onward(q)]
    /\ NoStore /\ NoHistory /\ NoClock /\ UNCHANGED ops

\* a protected route: router.METHOD(path, authenticateToken, ...gates, operation)
GateChain == <<"farmer", "subscription", "quota", "email">>

StartProtected(r) ==
    \E a \in issuedA \cup {NoTok, Malformed}, req \in SubscriptionTypes :
        Begin(r, [Idle EXCEPT !.op = "protected", !.pc = "auth", !.atoken = a,
                              !.chain = GateChain, !.stage = 0,
                              !.allowedTypes = {"commercial", "cooperative"},
                              !.required = req,
                              !.apiType = "cropRecommendations"])

\* the operation behind the gates
protectedOperation(r) ==
    LET q == reqs[r] IN
    /\ q.op = "protected" /\ q.pc = "handler"
    /\ reqs' = [reqs EXCEPT ![r] = Fail(q, 200, "OK")]
    /\ NoStore /\ NoHistory /\ NoClock /\ UNCHANGED ops

\* ------------------------------------------------------------ specification
SignUpSteps(r) ==
    \/ StartSignUp(r)
    \/ signUpCheck(r)
    \/ signUpCreate(r)
    \/ signUpPush(r)
    \/ signUpRespond(r)

SignInSteps(r) ==
    \/ StartSignIn(r)
    \/ signInFind(r)
    \/ signInPush(r)
    \/ signInRespond(r)

RefreshSteps(r) ==
    \/ StartRefresh(r)
    \/ refreshTokenVerify(r)
    \/ refreshTokenRotate(r)
    \/ refreshTokenConflict(r)

SignOutSteps(r) ==
    \/ StartSignOut(r)
    \/ signOut(r)
    \/ StartSignOutAll(r)
    \/ signOutAllDevices(r)

PasswordSteps(r) ==
    \/ StartChangePassword(r)
    \/ changePasswordFind(r)
    \/ changePasswordUpdate(r)
    \/ StartForgotPassword(r)
    \/ forgotPasswordFind(r)
    \/ forgotPasswordUpdate(r)
    \/ StartResetPassword(r)
    \/ resetPasswordFind(r)
    \/ resetPasswordUpdate(r)
    \/ resetPasswordUpdateStripped(r)

AccountSteps(r) ==
    \/ StartGetProfile(r)
    \/ getProfile(r)
    \/ StartDeleteAccount(r)
    \/ deleteAccountFind(r)
    \/ deleteAccountDelete(r)

\* token issue, rotation and revocation
NextSession ==
    \/ Tick(1)
    \/ Tick(JWT_REFRESH_EXPIRES_IN)
    \/ \E r \in Slots : SignUpSteps(r)
    \/ \E r \in Slots : SignInSteps(r)
    \/ \E r \in Slots : RefreshSteps(r)
    \/ \E r \in Slots : authenticateToken(r)
    \/ \E r \in Slots : SignOutSteps(r)

SpecSession == Init /\ [][NextSession]_vars

\* password change and reset
NextPassword ==
    \/ Tick(1)
    \/ Tick(RESET_EXPIRES_IN)
    \/ \E r \in Slots : SignUpSteps(r)
    \/ \E r \in Slots : RefreshSteps(r)
    \/ \E r \in Slots : authenticateToken(r)
    \/ \E r \in Slots : PasswordSteps(r)

SpecPassword == Init /\ [][NextPassword]_vars

\* the access-token gate
NextGate ==
    \/ Tick(1)
    \/ Tick(JWT_EXPIRES_IN)
    \/ \E r \in Slots : SignUpSteps(r)
    \/ \E r \in Slots : authenticateToken(r)
    \/ \E r \in Slots : AccountSteps(r)

SpecGate == Init /\ [][NextGate]_vars

\* ------------------------------------------------------- handleDbOperation
\* what a store operation can end in: a result, or an error with the name
\* and the code the driver gave it (code 0: the error has no code)
DbResults == {"document", "null"}
DbErrorNames == {"ValidationError", "CastError", "DocumentNotFoundError",
                 "MongoServerError", "MongoNetworkError"}
DUPLICATE_KEY == 11000
DbErrorCodes == {0, DUPLICATE_KEY, DUPLICATE_KEY + 1}
DbOutcomes ==
    [ok : {TRUE}, value : DbResults, name : {""}, code : {0}]
       \cup [ok : {FALSE}, value : {""}, name : DbErrorNames, code : DbErrorCodes]

AppError(status, code) ==
    [kind |-> "AppError", value |-> "", status |-> status, code |-> code]

\* handleDbOperation letting an error it does not know through
handleDbOperationRethrows(outcome) ==
    IF outcome.ok
    THEN [kind |-> "return", value |-> outcome.value, status |-> 0, code |-> ""]
    ELSE IF outcome.name = "ValidationError" THEN AppError(400, "VALIDATION_ERROR")
    ELSE IF outcome.code = DUPLICATE_KEY THEN AppError(409, "DUPLICATE_RESOURCE")
    ELSE IF outcome.name = "CastError" THEN AppError(400, "INVALID_ID_FORMAT")
    ELSE IF outcome.name = "DocumentNotFoundError"
    THEN AppError(404, "RESOURCE_NOT_FOUND")
    ELSE [kind |-> outcome.name, value |-> "", status |-> 0, code |-> ""]

\* handleDbOperation(operation, entityName): the result, or the AppError
\* thrown in its place
handleDbOperation(outcome) ==
    IF outcome.ok
    THEN [kind |-> "return", value |-> outcome.value, status |-> 0, code |-> ""]
    ELSE IF outcome.name = "ValidationError" THEN AppError(400, "VALIDATION_ERROR")
    ELSE IF outcome.code = DUPLICATE_KEY THEN AppError(409, "DUPLICATE_RESOURCE")
    ELSE IF outcome.name = "CastError" THEN AppError(400, "INVALID_ID_FORMAT")
    ELSE IF outcome.name = "DocumentNotFoundError"
    THEN AppError(404, "RESOURCE_NOT_FOUND")
    ELSE AppError(500, "DATABASE_ERROR")

\* a store operation has ended in some outcome inside handleDbOperation
StartDbOperation(r) ==
    \E outcome \in DbOutcomes :
        Begin(r, [Idle EXCEPT !.op = "dbOperation", !.pc = "operation",
                              !.mem = <<outcome>>])

\* the caller gets what handleDbOperation makes of the outcome
dbOperation(r) ==
    LET q == reqs[r] IN
    /\ q.op = "dbOperation" /\ q.pc = "operation"
    /\ reqs' = [reqs EXCEPT ![r] =
          [q EXCEPT !.pc = "done", !.mem = <<q.mem[1], handleDbOperation(q.mem[1])>>]]
    /\ NoStore /\ NoHistory /\ NoClock /\ UNCHANGED ops

NextDb ==
    \/ \E r \in Slots : StartDbOperation(r)
    \/ \E r \in Slots : dbOperation(r)

SpecDb == Init /\ [][NextDb]_vars

\* routes behind optionalAuth, with accounts created and deleted and access
\* tokens running out
NextOptional ==
    \/ Tick(JWT_EXPIRES_IN)
    \/ \E r \in Slots : SignUpSteps(r)
    \/ \E r \in Slots : authenticateToken(r)
    \/ \E r \in Slots : AccountSteps(r)
    \/ \E r \in Slots : StartOptional(r)
    \/ \E r \in Slots : optionalAuth(r)
    \/ \E r \in Slots : optionalOperation(r)

SpecOptional == Init /\ [][NextOptional]_vars

\* account deletion and the tokens of the deleted account
NextAccount ==
    \/ Tick(1)
    \/ \E r \in Slots : SignUpSteps(r)
    \/ \E r \in Slots : RefreshSteps(r)
    \/ \E r \in Slots : authenticateToken(r)
    \/ \E r \in Slots : AccountSteps(r)

SpecAccount == Init /\ [][NextAccount]_vars

\* sign-ups of several people
NextSignUp ==
    \/ Tick(1)
    \/ \E r \in Slots : StartSignUpWide(r)
    \/ \E r \in Slots : signUpCheck(r)
    \/ \E r \in Slots : signUpCreate(r)
    \/ \E r \in Slots : signUpPush(r)
    \/ \E r \in Slots : signUpRespond(r)

SpecSignUp == Init /\ [][NextSignUp]_vars

UsageSteps(r) ==
    \/ StartRecordUsage(r)
    \/ recordUsageLoad(r)
    \/ recordUsageSave(r)

\* the usage counters
NextUsage ==
    \/ Tick(1)
    \/ Tick(SECONDS_IN_JANUARY)
    \/ \E r \in Slots : SignUpSteps(r)
    \/ \E r \in Slots : UsageSteps(r)

SpecUsage == Init /\ [][NextUsage]_vars

\* --------------------------------------------------------- the quota, alone
\* the record of the first month after c increments of category a
UsageRecord(tier, a, c) ==
    [month |-> MonthOf(0),
     cropRecommendations |-> IF a = "cropRecommendations" THEN c ELSE 0,
     imageProcessing |-> IF a = "imageProcessing" THEN c ELSE 0,
     chatMessages |-> IF a = "chatMessages" THEN c ELSE 0,
     maxLimits |-> DefaultLimits(tier)]

\* one account of some tier, signed up and signed out again, that has made
\* no use of the API yet, or has made one short of its ceiling or exactly
\* its ceiling of uses of one category, one after the other
InitQuota ==
    /\ \E e \in Emails, u \in Usernames, tier \in SubscriptionTypes :
         \/ /\ users = (1 :> [NewUser(e, u, Hash("pw1")) EXCEPT
                                 !.subscriptionType = tier])
            /\ counted = [k \in UsageKeys |-> 0]
         \/ \E a \in ApiTypes :
              \E c \in {DefaultLimits(tier)[a] - 1, DefaultLimits(tier)[a]} :
                 /\ users = (1 :> [NewUser(e, u, Hash("pw1")) EXCEPT
                                      !.subscriptionType = tier,
                                      !.apiUsage = <<UsageRecord(tier, a, c)>>,
                                      !.version = 1])
                 /\ counted = [k \in UsageKeys |->
                                 IF k = <<1, MonthOf(0), a>> THEN c ELSE 0]
    /\ nextId = 2
    /\ nextReset = 1
    /\ now = 0
    /\ ticks = 0
    /\ ops = 0
    /\ reqs = [r \in Slots |-> Idle]
    /\ issuedR = {}
    /\ issuedA = {}
    /\ removed = {}
    /\ consumed = {}
    /\ revokedAll = {}
    /\ usedResets = {}

\* no request is being handled
Quiet == \A s \in Slots : reqs[s].pc \in {"idle", "done"}

\* requests of one session, handled one after the other
NextQuota ==
    \/ Tick(1)
    \/ Tick(SECONDS_IN_JANUARY)
    \/ \E r \in Slots : Quiet /\ StartCheckUsage(r)
    \/ \E r \in Slots : checkAPIUsage(r)
    \/ \E r \in Slots : Quiet /\ StartRecordUsage(r)
    \/ \E r \in Slots : recordUsageLoad(r)
    \/ \E r \in Slots : recordUsageSave(r)

SpecQuota == InitQuota /\ [][NextQuota]_vars

\* ----------------------------------------------------------- updateProfile
\* the keys of updateProfileSchema among the fields the accounts carry here
UpdateProfileKeys == {"farmerType"}

\* key and value pairs a client can send in the body of PUT /profile: a
\* farmer type of the enum or outside it, and values for fields the schema
\* does not name
BodyPairs ==
    ({"farmerType"} \X {"commercial", "research", "landlord"})
       \cup {<<"password", Hash("pw2")>>, <<"refreshTokens", <<>>>>,
             <<"subscriptionType", "enterprise">>, <<"subscriptionExpiry", 5>>,
             <<"apiUsage", <<UsageRecord("enterprise", "chatMessages", 0)>>>>,
             <<"isEmailVerified", TRUE>>, <<"passwordResetToken", 7>>}

MaxBodyKeys == 2

Bodies ==
    {b \in SUBSET BodyPairs :
        /\ Cardinality(b) <= MaxBodyKeys
        /\ \A p1, p2 \in b : p1[1] = p2[1] => p1 = p2}

StartUpdateProfile(r) ==
    \E a \in AccessInputs, b \in Bodies :
        Begin(r, [Idle EXCEPT !.op = "updateProfile", !.pc = "auth", !.atoken = a,
                              !.chain = <<"validate">>, !.body = b])

\* a parse that lets the keys the schema does not name pass through
SchemaParsePassthrough(body) == body

\* schema.parse(body) of a z.object: the keys the schema does not name are
\* stripped
SchemaParse(body) == {p \in body : p[1] \in UpdateProfileKeys}

\* the schema accepts the values of the keys it names
SchemaAccepts(body) ==
    \A p \in body : p[1] = "farmerType" => p[2] \in FarmerTypes

\* validateBody(updateProfileSchema): req.body = schema.parse(req.body), or
\* the 400 response
validateBody(r) ==
    LET q == reqs[r] IN
    /\ q.pc = "validate"
    /\ reqs' = [reqs EXCEPT ![r] =
          IF ~SchemaAccepts(q.body)
          THEN Fail(q, 400, "VALIDATION_ERROR")
          ELSE Onward([q EXCEPT !.body = SchemaParse(q.body)])]
    /\ NoStore /\ NoHistory /\ NoClock /\ UNCHANGED ops

\* {$set: cleanUpdates} applied to a document
SetFields(doc, updates) ==
    [f \in DOMAIN doc |->
        IF \E p \in updates : p[1] = f
        THEN (CHOOSE p \in updates : p[1] = f)[2]
        ELSE doc[f]]

\* findByIdAndUpdate(userId, {$set: cleanUpdates}, {new: true, runValidators: true})
updateProfile(r) ==
    LET q == reqs[r] IN
    /\ q.op = "updateProfile" /\ q.pc = "handler"
    /\ IF q.uid = 0
       THEN /\ reqs' = [reqs EXCEPT ![r] = Fail(q, 401, "NOT_AUTHENTICATED")]
            /\ NoStore
       ELSE IF ~Exists(q.uid)
       THEN /\ reqs' = [reqs EXCEPT ![r] = Fail(q, 404, "USER_NOT_FOUND")]
            /\ NoStore
       ELSE /\ Commit(Updated(q.uid, SetFields(users[q.uid], q.body)))
            /\ reqs' = [reqs EXCEPT ![r] = Fail(q, 200, "OK")]
            /\ UNCHANGED <<nextId, nextReset>>
    /\ NoHistory /\ NoClock /\ UNCHANGED ops

\* one account as sign-up left it at second 0, its tokens handed out
InitProfile ==
    /\ \E e \in Emails, u \in Usernames :
         LET doc == NewUser(e, u, Hash("pw1"))
             tk == generateTokens(1, doc, 0) IN
         /\ users = (1 :> [doc EXCEPT !.refreshTokens = <<tk.refreshToken>>,
                                      !.rtWrites = 1])
         /\ issuedR = {tk.refreshToken}
         /\ issuedA = {tk.accessToken}
    /\ counted = [k \in UsageKeys |-> 0]
    /\ nextId = 2
    /\ nextReset = 1
    /\ now = 0
    /\ ticks = 0
    /\ ops = 0
    /\ reqs = [r \in Slots |-> Idle]
    /\ removed = {}
    /\ consumed = {}
    /\ revokedAll = {}
    /\ usedResets = {}

\* profile updates of the account, one after the other
NextProfile ==
    \/ Tick(JWT_EXPIRES_IN)
    \/ \E r \in Slots : Quiet /\ StartUpdateProfile(r)
    \/ \E r \in Slots : authenticateToken(r)
    \/ \E r \in Slots : validateBody(r)
    \/ \E r \in Slots : updateProfile(r)

SpecProfile == InitProfile /\ [][NextProfile]_vars

\* ------------------------------------------------ usage behind the quota gate
\* a request to an operation behind checkAPIUsage(apiType)
StartGatedUsage(r) ==
    \E i \in DOMAIN users, a \in ApiTypes :
        Begin(r, [Idle EXCEPT !.op = "gatedUsage", !.pc = "quota",
                              !.uid = i, !.apiType = a])

\* the operation has succeeded; its use is recorded next
gatedOperation(r) ==
    LET q == reqs[r] IN
    /\ q.op = "gatedUsage" /\ q.pc = "handler"
    /\ reqs' = [reqs EXCEPT ![r] = [q EXCEPT !.op = "recordUsage", !.pc = "load"]]
    /\ NoStore /\ NoHistory /\ NoClock /\ UNCHANGED ops

\* concurrent requests of one account, every use recorded by a request that
\* passed the quota gate
NextGated ==
    \/ Tick(1)
    \/ \E r \in Slots : StartGatedUsage(r)
    \/ \E r \in Slots : checkAPIUsage(r)
    \/ \E r \in Slots : gatedOperation(r)
    \/ \E r \in Slots : recordUsageLoad(r)
    \/ \E r \in Slots : recordUsageSave(r)

SpecGated == InitQuota /\ [][NextGated]_vars

\* ------------------------------------------------- incrementAPIUsage, alone
\* one account whose tier may have changed since its record of the first
\* month was created (no record, or a record with the ceilings of some tier
\* and one or two uses of one category)
InitIncrement ==
    /\ \E e \in Emails, u \in Usernames, tier \in SubscriptionTypes :
         \/ /\ users = (1 :> [NewUser(e, u, Hash("pw1")) EXCEPT
                                 !.subscriptionType = tier])
            /\ counted = [k \in UsageKeys |-> 0]
         \/ \E a \in ApiTypes, was \in SubscriptionTypes, c \in 1..2 :
                 /\ users = (1 :> [NewUser(e, u, Hash("pw1")) EXCEPT
                                      !.subscriptionType = tier,
                                      !.apiUsage = <<UsageRecord(was, a, c)>>,
                                      !.version = 1])
                 /\ counted = [k \in UsageKeys |->
                                 IF k = <<1, MonthOf(0), a>> THEN c ELSE 0]
    /\ nextId = 2
    /\ nextReset = 1
    /\ now = 0
    /\ ticks = 0
    /\ ops = 0
    /\ reqs = [r \in Slots |-> Idle]
    /\ issuedR = {}
    /\ issuedA = {}
    /\ removed = {}
    /\ consumed = {}
    /\ revokedAll = {}
    /\ usedResets = {}

\* usage requests made one after the other, in the first month and the next
NextIncrement ==
    \/ Tick(SECONDS_IN_JANUARY)
    \/ \E r \in Slots : Quiet /\ StartRecordUsage(r)
    \/ \E r \in Slots : recordUsageLoad(r)
    \/ \E r \in Slots : recordUsageSave(r)

SpecIncrement == InitIncrement /\ [][NextIncrement]_vars

\* --------------------------------------------------------- the gate chain
\* one account as sign-up left it at second 0 (its tokens handed out), whose
\* tier, subscription expiry, farmer type, verification flag and usage have
\* since been set
InitChain ==
    /\ \E e \in Emails, u \in Usernames, tier \in SubscriptionTypes,
          expiry \in {NoExpiry, 0, 2}, ft \in {"individual", "commercial"},
          verified \in BOOLEAN, atCeiling \in BOOLEAN :
         LET c == IF atCeiling THEN DefaultLimits(tier).cropRecommendations ELSE 0
             doc == [NewUser(e, u, Hash("pw1")) EXCEPT
                        !.subscriptionType = tier,
                        !.subscriptionExpiry = expiry,
                        !.farmerType = ft,
                        !.isEmailVerified = verified]
             tk == generateTokens(1, NewUser(e, u, Hash("pw1")), 0) IN
         /\ users = (1 :> [doc EXCEPT
                             !.refreshTokens = <<tk.refreshToken>>,
                             !.rtWrites = 1,
                             !.apiUsage = IF c = 0 THEN <<>>
                                          ELSE <<UsageRecord(tier, "cropRecommendations", c)>>,
                             !.version = IF c = 0 THEN 0 ELSE 1])
         /\ counted = [k \in UsageKeys |->
                         IF k = <<1, MonthOf(0), "cropRecommendations">> THEN c ELSE 0]
         /\ issuedR = {tk.refreshToken}
         /\ issuedA = {tk.accessToken}
    /\ nextId = 2
    /\ nextReset = 1
    /\ now = 1
    /\ ticks = 0
    /\ ops = 0
    /\ reqs = [r \in Slots |-> Idle]
    /\ removed = {}
    /\ consumed = {}
    /\ revokedAll = {}
    /\ usedResets = {}

NextChain ==
    \/ Tick(1)
    \/ Tick(JWT_EXPIRES_IN)
    \/ \E r \in Slots : Quiet /\ StartProtected(r)
    \/ \E r \in Slots : authenticateToken(r)
    \/ \E r \in Slots : authorizeFarmerType(r)
    \/ \E r \in Slots : checkSubscription(r)
    \/ \E r \in Slots : checkAPIUsage(r)
    \/ \E r \in Slots : requireEmailVerification(r)
    \/ \E r \in Slots : protectedOperation(r)

SpecChain == InitChain /\ [][NextChain]_vars

\* the gate chain with the stored farmer type changing under a token issued
\* before the change: the account starts as an individual farmer without a
\* subscription expiry, and profile updates go on between the requests
InitStored ==
    /\ InitChain
    /\ \A i \in DOMAIN users : /\ users[i].farmerType = "individual"
                                /\ users[i].subscriptionExpiry = NoExpiry

NextStored ==
    \/ \E r \in Slots : Quiet /\ StartProtected(r)
    \/ \E r \in Slots : authenticateToken(r)
    \/ \E r \in Slots : authorizeFarmerType(r)
    \/ \E r \in Slots : checkSubscription(r)
    \/ \E r \in Slots : checkAPIUsage(r)
    \/ \E r \in Slots : requireEmailVerification(r)
    \/ \E r \in Slots : protectedOperation(r)
    \/ \E r \in Slots : Quiet /\ StartUpdateProfile(r)
    \/ \E r \in Slots : validateBody(r)
    \/ \E r \in Slots : updateProfile(r)

SpecStored == InitStored /\ [][NextStored]_vars

\* ------------------------------------------------------------------ claims
\* a refresh presenting tok now passes jwt.verify and the membership query
RefreshAccepts(tok) ==
    /\ tok.sig = JWT_REFRESH_SECRET
    /\ now < tok.exp
    /\ tok.id \in DOMAIN users
    /\ tok \in Range(users[tok.id].refreshTokens)

C2_RemovedNeverReturns ==
    \A p \in removed :
        Exists(p[1]) => p[2] \notin Range(users[p[1]].refreshTokens)

C4_SignOutAllRevokes == \A t \in revokedAll : ~RefreshAccepts(t)

\* tok is a member of the refreshTokens of the account it names
Live(tok) == tok.id \in DOMAIN users /\ tok \in Range(users[tok.id].refreshTokens)

\* C5: the step that completes a successful change-password or
\* reset-password leaves the account's refreshTokens empty, so that every
\* token that was in the set just before is rejected by refreshToken just after.
C5_PasswordChangeClearsTokens ==
    [][\A r \in Slots :
         (/\ reqs[r].op \in {"changePassword", "resetPassword"}
          /\ reqs[r].pc = "update"
          /\ reqs'[r].pc = "done" /\ reqs'[r].resp.status = 200
          /\ reqs[r].uid \in DOMAIN users')
         => /\ users'[reqs[r].uid].refreshTokens = <<>>
            /\ \A t \in Range(users[reqs[r].uid].refreshTokens) : ~RefreshAccepts(t)'
      ]_vars

\* C5 witness: a change-password has completed with success on an account
\* that held a refresh token, and the account's set is empty
C5_Witness ==
    \E r \in Slots :
        /\ reqs[r].op = "changePassword" /\ reqs[r].pc = "done"
        /\ reqs[r].resp.status = 200
        /\ \E p \in removed : Exists(p[1]) /\ users[p[1]].refreshTokens = <<>>

\* C7 as stated: when a sign-up completes with success, the new account's
\* refreshTokens holds exactly one token, the one returned.
C7_SignUpExactlyOneToken ==
    [][\A r \in Slots :
         (/\ reqs[r].op = "signUp" /\ reqs[r].pc = "log"
          /\ reqs'[r].pc = "done" /\ reqs'[r].resp.status = 201)
         => /\ reqs[r].uid \in DOMAIN users'
            /\ users'[reqs[r].uid].refreshTokens = <<reqs'[r].resp.refreshToken>>
      ]_vars

\* C7 amended: when a sign-up completes with success and its own $push is the
\* only write any request has made to the new account's refreshTokens, the
\* set holds exactly one token, the one returned.
C7_SignUpOwnTokenOnly ==
    [][\A r \in Slots :
         (/\ reqs[r].op = "signUp" /\ reqs[r].pc = "log"
          /\ reqs'[r].pc = "done" /\ reqs'[r].resp.status = 201
          /\ reqs[r].uid \in DOMAIN users'
          /\ users'[reqs[r].uid].rtWrites = 1)
         => users'[reqs[r].uid].refreshTokens = <<reqs'[r].resp.refreshToken>>
      ]_vars

\* C7 witness: a sign-up has completed and the account holds the returned token
C7_Witness ==
    \E r \in Slots, i \in DOMAIN users :
        /\ reqs[r].op = "signUp" /\ reqs[r].pc = "done"
        /\ reqs[r].resp.status = 201
        /\ users[i].rtWrites = 1
        /\ users[i].refreshTokens = <<reqs[r].resp.refreshToken>>

\* C8: a refresh is passed on to the rotation only if the presented token
\* verifies and is a member of the account's refreshTokens; without a token it
\* fails NO_REFRESH_TOKEN, with a well-signed unexpired token that is not in
\* the set it fails INVALID_REFRESH_TOKEN, and every failing step leaves the
\* users collection unchanged and hands out no token.
C8_RefreshRequiresMembership ==
    [][\A r \in Slots :
         (reqs[r].op = "refreshToken" /\ reqs[r].pc \in {"verify", "rotate"}
          /\ reqs'[r].pc # reqs[r].pc)
         => LET t == reqs[r].rtoken IN
            /\ (reqs'[r].pc = "rotate" => RefreshAccepts(t))
            /\ (reqs'[r].resp.status = 200 => reqs[r].pc = "rotate")
            /\ (reqs[r].pc = "verify" /\ t = NoTok
                   => reqs'[r].resp.code = "NO_REFRESH_TOKEN")
            /\ (reqs[r].pc = "verify" /\ t.sig = JWT_REFRESH_SECRET
                /\ now < t.exp /\ ~Live(t)
                   => reqs'[r].resp.code = "INVALID_REFRESH_TOKEN")
            /\ (reqs'[r].pc = "done" /\ reqs'[r].resp.status # 200
                   => /\ users' = users
                      /\ issuedR' = issuedR /\ issuedA' = issuedA
                      /\ reqs'[r].resp.refreshToken = NoTok
                      /\ reqs'[r].resp.accessToken = NoTok)
      ]_vars

\* C8 witness: a refresh presenting a well-signed, unexpired token that had
\* been taken out of the set was answered INVALID_REFRESH_TOKEN
C8_Witness ==
    \E r \in Slots :
        /\ reqs[r].op = "refreshToken" /\ reqs[r].pc = "done"
        /\ reqs[r].resp.code = "INVALID_REFRESH_TOKEN"
        /\ reqs[r].rtoken.sig = JWT_REFRESH_SECRET /\ now < reqs[r].rtoken.exp
        /\ <<reqs[r].rtoken.id, reqs[r].rtoken>> \in removed

\* C9: a reset token that a successful reset-password has used matches no
\* account any more, so a second reset-password presenting it fails
\* INVALID_RESET_TOKEN, also inside its original one-hour window.
C9_ResetTokenSingleUse ==
    \A t \in usedResets :
        ~ \E i \in DOMAIN users : /\ users[i].passwordResetToken = t
                                  /\ users[i].passwordResetExpiry > now

\* C10: the gate reports each failure cause under its own code: no token
\* NO_ACCESS_TOKEN, bad signature or malformed INVALID_ACCESS_TOKEN, correctly
\* signed but expired ACCESS_TOKEN_EXPIRED, valid token of a missing account
\* USER_NOT_FOUND.
C10_GateErrorCodes ==
    [][\A r \in Slots :
         (reqs[r].pc = "auth" /\ reqs'[r].pc # "auth")
         => LET a == reqs[r].atoken
                code == reqs'[r].resp.code IN
            /\ (a = NoTok => code = "NO_ACCESS_TOKEN")
            /\ (a # NoTok /\ a.sig # JWT_SECRET => code = "INVALID_ACCESS_TOKEN")
            /\ (a.sig = JWT_SECRET /\ now >= a.exp => code = "ACCESS_TOKEN_EXPIRED")
            /\ (a.sig = JWT_SECRET /\ now < a.exp /\ a.id \notin DOMAIN users
                   => code = "USER_NOT_FOUND")
      ]_vars


\* the counter of a category in the record currentApiUsage reads for a month
Counter(doc, month, apiType) ==
    IF \E i \in DOMAIN doc.apiUsage : doc.apiUsage[i].month = month
    THEN doc.apiUsage[CHOOSE i \in DOMAIN doc.apiUsage :
            /\ doc.apiUsage[i].month = month
            /\ \A j \in DOMAIN doc.apiUsage : doc.apiUsage[j].month = month => i <= j][apiType]
    ELSE 0

\* C6: the counter of a category for a month equals the number of increments
\* of that category that requests have persisted for the account in that
\* month, whatever the interleaving of the requests.
C6_NoLostUpdate ==
    \A i \in DOMAIN users, m \in Months, a \in ApiTypes :
        Counter(users[i], m, a) = counted[<<i, m, a>>]

GateAnswers(r) ==
    /\ reqs[r].op = "checkAPIUsage" /\ reqs[r].pc = "quota"
    /\ reqs'[r].pc = "done"
    /\ reqs[r].uid \in DOMAIN users

MonthRecords(doc, m) == SelectSeq(doc.apiUsage, LAMBDA rec : rec.month = m)

\* C13: in a month in which no increment has been persisted yet, every
\* category's effective counter is 0 whatever the earlier months hold, and a
\* step changes the records of a month only by persisting an increment that
\* was made in that month (reads and increments of a later month leave the
\* earlier records as they were).
C13_MonthBoundaryResets ==
    [][/\ \A i \in DOMAIN users' :
            (\A b \in ApiTypes : counted'[<<i, MonthOf(now'), b>>] = 0)
            => \A a \in ApiTypes : currentApiUsage(users'[i], now')[a] = 0
       /\ \A i \in DOMAIN users \cap DOMAIN users', m \in Months :
            MonthRecords(users'[i], m) # MonthRecords(users[i], m)
            => \E r \in Slots : /\ reqs[r].op = "recordUsage" /\ reqs[r].pc = "save"
                                /\ reqs'[r].pc = "done"
                                /\ reqs[r].uid = i /\ reqs[r].month = m
      ]_vars

\* C13 witness: in the second month, after an increment of that month was
\* persisted, the account still holds the first month's record with its uses
C13_Witness ==
    \E i \in DOMAIN users, a \in ApiTypes, b \in ApiTypes :
        /\ MonthOf(now) = "1970-02"
        /\ counted[<<i, "1970-01", a>>] > 0
        /\ Counter(users[i], "1970-01", a) = counted[<<i, "1970-01", a>>]
        /\ counted[<<i, "1970-02", b>>] > 0
        /\ Counter(users[i], "1970-02", b) = 1

\* C14: for a free-tier account whose increments are made one after the
\* other, hasExceededAPILimit(cropRecommendations) is true exactly when the
\* number k of increments of cropRecommendations persisted in the current
\* month is at least 10.
C14_FreeTierTenCrops ==
    \A i \in DOMAIN users :
        users[i].subscriptionType = "free"
        => (hasExceededAPILimit(users[i], "cropRecommendations", now)
               <=> counted[<<i, MonthOf(now), "cropRecommendations">>]
                      >= FREE_CROP_LIMIT)

\* C14 witness: a free-tier account after its 11th increment of
\* cropRecommendations in the month
C14_Witness ==
    \E i \in DOMAIN users, r \in Slots :
        /\ users[i].subscriptionType = "free"
        /\ reqs[r].op = "recordUsage" /\ reqs[r].pc = "done"
        /\ reqs[r].resp.status = 200
        /\ counted[<<i, MonthOf(now), "cropRecommendations">>] = FREE_CROP_LIMIT + 1

\* C15: the quota gate never answers API_LIMIT_EXCEEDED to an account of the
\* enterprise tier, whatever its counters.
C15_EnterpriseUnbounded ==
    [][\A r \in Slots :
         (GateAnswers(r) /\ users[reqs[r].uid].subscriptionType = "enterprise")
         => reqs'[r].resp.code # "API_LIMIT_EXCEEDED"
      ]_vars

\* the one response of a refused sign-in
SignInRefusal ==
    [status |-> 401, code |-> "INVALID_CREDENTIALS",
     message |-> "Invalid email or password",
     accessToken |-> NoTok, refreshToken |-> NoTok]

\* C16: a sign-in for an email no account has and a sign-in with a password
\* that is not the account's are answered with the same response (401,
\* INVALID_CREDENTIALS, same message, no token), and the refused sign-in
\* changes no account.
C16_SignInDoesNotReveal ==
    [][\A r \in Slots :
         (reqs[r].op = "signIn" /\ reqs[r].pc = "find" /\ reqs'[r].pc # "find")
         => LET m == {i \in DOMAIN users : users[i].email = reqs[r].email}
                missing == m = {}
                wrong == \E i \in m : users[i].password # Hash(reqs[r].password) IN
            /\ (missing \/ wrong)
                  => /\ reqs'[r].pc = "done"
                     /\ reqs'[r].resp = SignInRefusal
                     /\ users' = users
            /\ reqs'[r].pc = "done" => (missing \/ wrong)
      ]_vars

\* C16 witness: a sign-in was refused while no account exists
C16_Witness ==
    \E r \in Slots :
        /\ reqs[r].op = "signIn" /\ reqs[r].pc = "done"
        /\ reqs[r].resp = SignInRefusal
        /\ users = <<>>

\* C17: a reset-password presenting the token an account stores, at or after
\* the token's expiry (one hour after it was generated), fails
\* INVALID_RESET_TOKEN and leaves every account (password hash, refreshTokens)
\* as it was.
C17_ExpiredResetTokenRefused ==
    [][\A r \in Slots :
         (/\ reqs[r].op = "resetPassword" /\ reqs[r].pc = "find"
          /\ reqs'[r].pc # "find"
          /\ \E i \in DOMAIN users :
                /\ users[i].passwordResetToken = reqs[r].resetToken
                /\ users[i].passwordResetExpiry <= now)
         => /\ reqs'[r].pc = "done"
            /\ reqs'[r].resp.status = 400
            /\ reqs'[r].resp.code = "INVALID_RESET_TOKEN"
            /\ users' = users
      ]_vars

\* C17 witness: a reset-password presenting the stored token after its expiry
\* was refused
C17_Witness ==
    \E r \in Slots, i \in DOMAIN users :
        /\ reqs[r].op = "resetPassword" /\ reqs[r].pc = "done"
        /\ reqs[r].resp.code = "INVALID_RESET_TOKEN"
        /\ users[i].passwordResetToken = reqs[r].resetToken
        /\ users[i].passwordResetExpiry <= now

\* the one response of forgot-password
ForgotResponse ==
    [status |-> 200, code |-> "OK",
     message |-> "If an account with this email exists, a password reset link has been sent.",
     accessToken |-> NoTok, refreshToken |-> NoTok]

\* C18: every forgot-password is answered with the same response (200, the
\* same message, no data), whether an account has the email or not.
C18_ForgotPasswordDoesNotReveal ==
    [][\A r \in Slots :
         (reqs[r].op = "forgotPassword" /\ reqs[r].pc # "done" /\ reqs'[r].pc = "done")
         => reqs'[r].resp = ForgotResponse
      ]_vars

\* C18 witness: two forgot-password requests were answered alike, one made
\* before the account existed and one that stored a token on it
C18_Witness ==
    \E r1, r2 \in Slots, i \in DOMAIN users :
        /\ r1 # r2
        /\ reqs[r1].op = "forgotPassword" /\ reqs[r1].pc = "done"
        /\ reqs[r2].op = "forgotPassword" /\ reqs[r2].pc = "done"
        /\ reqs[r1].resp = reqs[r2].resp
        /\ nextReset = 2
        /\ users[i].passwordResetToken = 1

\* reset-password presenting t is accepted for account i
ResetAccepted(i, t) ==
    users[i].passwordResetToken = t /\ users[i].passwordResetExpiry > now

\* the same after the step
ResetAcceptedNext(i, t) ==
    users'[i].passwordResetToken = t /\ users'[i].passwordResetExpiry > now'

\* C19: when a forgot-password completes for an account, the account stores
\* the new token and its expiry in place of the previous ones, so that no
\* other token is accepted for the account from then on; at any time at most
\* one token is accepted for an account.
C19_SingleOutstandingResetToken ==
    [][/\ \A r \in Slots :
            (/\ reqs[r].op = "forgotPassword" /\ reqs[r].pc = "update"
             /\ reqs'[r].pc = "done"
             /\ reqs[r].uid \in DOMAIN users')
            => /\ users'[reqs[r].uid].passwordResetToken = reqs[r].resetToken
               /\ users'[reqs[r].uid].passwordResetExpiry = reqs[r].resetExp
               /\ \A t \in ResetInputs \ {reqs[r].resetToken} :
                     ~ResetAcceptedNext(reqs[r].uid, t)
       /\ \A i \in DOMAIN users' :
            Cardinality({t \in ResetInputs : ResetAcceptedNext(i, t)}) <= 1
      ]_vars

\* C19 witness: two forgot-password requests have completed for the account,
\* which stores the second token; the first is no longer accepted
C19_Witness ==
    \E i \in DOMAIN users :
        /\ nextReset = 3
        /\ \A r \in Slots : reqs[r].pc \in {"idle", "done"}
        /\ users[i].passwordResetToken = 2
        /\ ResetAccepted(i, 2) /\ ~ResetAccepted(i, 1)

\* C20: a sign-out succeeds, takes the presented refresh token out of the
\* account's refreshTokens and keeps every other token of the set; when the
\* token is not in the set (or none is presented) the set stays as it was;
\* nothing else of any account changes.
C20_SignOutRemovesOnlyPresented ==
    [][\A r \in Slots :
         (/\ reqs[r].op = "signOut" /\ reqs[r].pc = "handler"
          /\ reqs'[r].pc = "done"
          /\ reqs[r].uid \in DOMAIN users)
         => LET i == reqs[r].uid
                t == reqs[r].rtoken
                old == users[i].refreshTokens IN
            /\ reqs'[r].resp.status = 200
            /\ i \in DOMAIN users'
            /\ t \notin Range(users'[i].refreshTokens)
            /\ Range(users'[i].refreshTokens) = Range(old) \ {t}
            /\ (t \notin Range(old) => users'[i].refreshTokens = old)
            /\ [users' EXCEPT ![i].refreshTokens = old,
                              ![i].rtWrites = users[i].rtWrites] = users
      ]_vars

\* C20 witness: a sign-out took the presented token out of a set that still
\* holds another token
C20_Witness ==
    \E r \in Slots, i \in DOMAIN users :
        /\ reqs[r].op = "signOut" /\ reqs[r].pc = "done"
        /\ reqs[r].resp.status = 200
        /\ <<i, reqs[r].rtoken>> \in removed
        /\ reqs[r].rtoken \notin Range(users[i].refreshTokens)
        /\ users[i].refreshTokens # <<>>

\* C21: an account leaves the store only by the delete step of a
\* delete-account whose supplied password matched the stored hash; a
\* delete-account without a password fails PASSWORD_REQUIRED and one with a
\* wrong password fails INVALID_PASSWORD, both leaving the store as it was;
\* once the account is gone, a correctly signed unexpired access token of it
\* fails USER_NOT_FOUND at the gate and a refresh token of it fails at refresh.
C21_DeleteAccountRequiresPassword ==
    [][/\ \A i \in DOMAIN users \ DOMAIN users' :
            \E r \in Slots : /\ reqs[r].op = "deleteAccount" /\ reqs[r].pc = "delete"
                             /\ reqs[r].uid = i /\ reqs'[r].pc = "done"
       /\ \A r \in Slots :
            (reqs[r].op = "deleteAccount" /\ reqs[r].pc = "handler"
             /\ reqs'[r].pc # "handler")
            => /\ users' = users
               /\ reqs'[r].pc = "delete"
                     => /\ reqs[r].uid \in DOMAIN users
                        /\ users[reqs[r].uid].password = Hash(reqs[r].password)
               /\ reqs[r].password = ""
                     => reqs'[r].resp.code = "PASSWORD_REQUIRED"
               /\ (/\ reqs[r].password # ""
                   /\ reqs[r].uid \in DOMAIN users
                   /\ users[reqs[r].uid].password # Hash(reqs[r].password))
                     => reqs'[r].resp.code = "INVALID_PASSWORD"
       /\ \A r \in Slots :
            (/\ reqs[r].pc = "auth" /\ reqs'[r].pc # "auth"
             /\ reqs[r].atoken.sig = JWT_SECRET /\ now < reqs[r].atoken.exp
             /\ reqs[r].atoken.id \notin DOMAIN users)
            => reqs'[r].pc = "done" /\ reqs'[r].resp.code = "USER_NOT_FOUND"
       /\ \A r \in Slots :
            (/\ reqs[r].op = "refreshToken" /\ reqs[r].pc = "verify"
             /\ reqs'[r].pc # "verify"
             /\ reqs[r].rtoken # NoTok
             /\ reqs[r].rtoken.id \notin DOMAIN users)
            => /\ reqs'[r].pc = "done" /\ reqs'[r].resp.status = 401
               /\ reqs'[r].resp.refreshToken = NoTok
      ]_vars

\* C21 witness: the account was deleted and a request bearing one of its
\* tokens was then refused for want of the account
C21_Witness ==
    \E r1, r2 \in Slots :
        /\ r1 # r2
        /\ reqs[r1].op = "deleteAccount" /\ reqs[r1].pc = "done"
        /\ reqs[r1].resp.status = 200
        /\ reqs[r2].op = "getProfile" /\ reqs[r2].pc = "done"
        /\ reqs[r2].resp.status = 401 /\ reqs[r2].resp.code = "USER_NOT_FOUND"
        /\ users = <<>> /\ nextId = 2

\* C22: a change-password whose current password does not match the stored
\* hash fails INVALID_CURRENT_PASSWORD and leaves every account (hash,
\* refreshTokens) as it was; change-password goes on to its update only when
\* the current password matched, and a stored hash changes only by the update
\* of such a change-password or of a reset-password.
C22_ChangePasswordRequiresCurrent ==
    [][/\ \A r \in Slots :
            (reqs[r].op = "changePassword" /\ reqs[r].pc = "handler"
             /\ reqs'[r].pc # "handler")
            => /\ users' = users
               /\ (/\ reqs[r].uid \in DOMAIN users
                   /\ users[reqs[r].uid].password # Hash(reqs[r].password))
                     => /\ reqs'[r].pc = "done"
                        /\ reqs'[r].resp.status = 400
                        /\ reqs'[r].resp.code = "INVALID_CURRENT_PASSWORD"
               /\ reqs'[r].pc = "update"
                     => /\ reqs[r].uid \in DOMAIN users
                        /\ users[reqs[r].uid].password = Hash(reqs[r].password)
       /\ \A i \in DOMAIN users \cap DOMAIN users' :
            users'[i].password # users[i].password
            => \E r \in Slots :
                  /\ reqs[r].op \in {"changePassword", "resetPassword"}
                  /\ reqs[r].pc = "update" /\ reqs'[r].pc = "done"
                  /\ reqs[r].uid = i
      ]_vars

\* C22 witness: a change-password was refused for its current password while
\* the account keeps its hash and a refresh token
C22_Witness ==
    \E r \in Slots, i \in DOMAIN users :
        /\ reqs[r].op = "changePassword" /\ reqs[r].pc = "done"
        /\ reqs[r].resp.code = "INVALID_CURRENT_PASSWORD"
        /\ users[i].refreshTokens # <<>>

\* C23: no two stored accounts have the same email or the same username, in
\* every reachable state, also when two sign-ups passed the existence check
\* before either created its account.
C23_EmailAndUsernameUnique ==
    \A i, j \in DOMAIN users :
        i # j => /\ users[i].email # users[j].email
                 /\ users[i].username # users[j].username

\* C23 witness: two accounts are stored and a sign-up that had passed the
\* existence check was refused by the store
C23_Witness ==
    \E r \in Slots :
        /\ reqs[r].op = "signUp" /\ reqs[r].pc = "done"
        /\ reqs[r].resp.code = "DUPLICATE_RESOURCE"
        /\ Cardinality(DOMAIN users) = 2

\* C24: a sign-up whose email is present on a stored account fails
\* EMAIL_EXISTS, one whose username (and not its email) is present fails
\* USERNAME_EXISTS, both with 409, without creating an account and without
\* issuing or storing a token.
C24_SignUpConflictCodes ==
    [][\A r \in Slots :
         (reqs[r].op = "signUp" /\ reqs[r].pc = "check" /\ reqs'[r].pc # "check")
         => LET emailPresent == \E i \in DOMAIN users : users[i].email = reqs[r].email
                namePresent == \E i \in DOMAIN users :
                                  users[i].username = reqs[r].username IN
            /\ emailPresent => reqs'[r].resp.code = "EMAIL_EXISTS"
            /\ (namePresent /\ ~emailPresent) => reqs'[r].resp.code = "USERNAME_EXISTS"
            /\ (emailPresent \/ namePresent)
                  => /\ reqs'[r].pc = "done" /\ reqs'[r].resp.status = 409
                     /\ reqs'[r].resp.refreshToken = NoTok
                     /\ reqs'[r].resp.accessToken = NoTok
                     /\ users' = users /\ issuedR' = issuedR /\ issuedA' = issuedA
      ]_vars

\* the order of the tiers
TierRank(tier) ==
    CHOOSE k \in 1..4 : <<"free", "basic", "premium", "enterprise">>[k] = tier

\* the account's subscription expiry lies in the past
SubscriptionLapsed(doc) ==
    doc.subscriptionExpiry # NoExpiry /\ doc.subscriptionExpiry < now

\* the check named gate lets request q through in the current state
CheckHolds(gate, q) ==
    CASE gate = "auth" ->
            /\ q.atoken.sig = JWT_SECRET /\ now < q.atoken.exp
            /\ q.atoken.id \in DOMAIN users
      [] gate = "farmer" -> users[q.uid].farmerType \in q.allowedTypes
      [] gate = "subscription" ->
            /\ ~SubscriptionLapsed(users[q.uid])
            /\ TierRank(users[q.uid].subscriptionType) >= TierRank(q.required)
      [] gate = "quota" ->
            Counter(users[q.uid], MonthOf(now), q.apiType)
               < DefaultLimits(users[q.uid].subscriptionType)[q.apiType]
      [] gate = "email" -> users[q.uid].isEmailVerified

\* the error codes of each check
CheckCodes(gate) ==
    CASE gate = "auth" -> {"NO_ACCESS_TOKEN", "INVALID_ACCESS_TOKEN",
                           "ACCESS_TOKEN_EXPIRED", "USER_NOT_FOUND"}
      [] gate = "farmer" -> {"INSUFFICIENT_PERMISSIONS"}
      [] gate = "subscription" -> {"SUBSCRIPTION_EXPIRED", "INSUFFICIENT_SUBSCRIPTION"}
      [] gate = "quota" -> {"API_LIMIT_EXCEEDED"}
      [] gate = "email" -> {"EMAIL_VERIFICATION_REQUIRED"}

\* C25: a request to a protected route runs the checks of its chain in order,
\* one per step; a check that holds passes control to the next check (to the
\* operation after the last); a check that fails ends the request with one of
\* its own error codes; the operation runs only at the end of the chain, after
\* every check has passed.
C25_ChainShortCircuits ==
    [][\A r \in Slots :
         (/\ reqs[r].op = "protected"
          /\ reqs[r].pc \notin {"idle", "done"}
          /\ reqs'[r] # reqs[r])
         => LET q == reqs[r]
                full == <<"auth">> \o q.chain
                k == q.stage + 1 IN
            IF q.pc = "handler"
            THEN /\ q.stage = Len(full)
                 /\ reqs'[r].pc = "done" /\ reqs'[r].resp.status = 200
            ELSE /\ k <= Len(full) /\ q.pc = full[k]
                 /\ CheckHolds(q.pc, q)
                       => /\ reqs'[r].stage = k
                          /\ reqs'[r].pc = IF k < Len(full) THEN full[k + 1]
                                           ELSE "handler"
                 /\ ~CheckHolds(q.pc, q)
                       => /\ reqs'[r].pc = "done"
                          /\ reqs'[r].resp.status # 200
                          /\ reqs'[r].resp.code \in CheckCodes(q.pc)
      ]_vars

\* C25 witness: the operation behind the whole chain has run
C25_Witness ==
    \E r \in Slots :
        /\ reqs[r].op = "protected" /\ reqs[r].pc = "done"
        /\ reqs[r].resp.status = 200 /\ reqs[r].resp.code = "OK"

\* C26: checkSubscription(required) fails SUBSCRIPTION_EXPIRED whenever the
\* account's subscriptionExpiry is in the past, whatever the tiers; otherwise
\* it fails INSUFFICIENT_SUBSCRIPTION exactly when the account's tier is
\* below the required tier in the order free < basic < premium < enterprise,
\* and passes control onward in every other case.
C26_SubscriptionGate ==
    [][\A r \in Slots :
         (/\ reqs[r].pc = "subscription" /\ reqs'[r].pc # "subscription"
          /\ reqs[r].uid \in DOMAIN users)
         => LET doc == users[reqs[r].uid]
                below == TierRank(doc.subscriptionType) < TierRank(reqs[r].required) IN
            /\ SubscriptionLapsed(doc)
                  => /\ reqs'[r].pc = "done"
                     /\ reqs'[r].resp.code = "SUBSCRIPTION_EXPIRED"
            /\ (~SubscriptionLapsed(doc) /\ below)
                  => /\ reqs'[r].pc = "done"
                     /\ reqs'[r].resp.code = "INSUFFICIENT_SUBSCRIPTION"
            /\ (~SubscriptionLapsed(doc) /\ ~below) => reqs'[r].pc # "done"
      ]_vars

\* C26 witness: an enterprise account whose subscription has lapsed was
\* refused SUBSCRIPTION_EXPIRED
C26_Witness ==
    \E r \in Slots, i \in DOMAIN users :
        /\ reqs[r].op = "protected" /\ reqs[r].pc = "done"
        /\ reqs[r].resp.code = "SUBSCRIPTION_EXPIRED"
        /\ users[i].subscriptionType = "enterprise"

\* C27: the quota gate answers a request of an existing account
\* API_LIMIT_EXCEEDED with status 429 exactly when the current month's counter
\* of the category has reached the ceiling of the account's tier, passes the
\* request onward without an error otherwise, and in neither case changes
\* any account's usage records.
C27_QuotaGate ==
    [][\A r \in Slots :
         (/\ reqs[r].pc = "quota" /\ reqs'[r].pc # "quota"
          /\ reqs[r].uid \in DOMAIN users)
         => LET doc == users[reqs[r].uid]
                a == reqs[r].apiType
                exceeded == Counter(doc, MonthOf(now), a)
                               >= DefaultLimits(doc.subscriptionType)[a] IN
            /\ exceeded => /\ reqs'[r].pc = "done"
                           /\ reqs'[r].resp.status = 429
                           /\ reqs'[r].resp.code = "API_LIMIT_EXCEEDED"
            /\ ~exceeded => /\ reqs'[r].resp.status \in {0, 200}
                            /\ reqs'[r].resp.code # "API_LIMIT_EXCEEDED"
            /\ \A i \in DOMAIN users :
                  /\ i \in DOMAIN users'
                  /\ users'[i].apiUsage = users[i].apiUsage
      ]_vars

\* C27 witness: the gate has let a request through and the account's
\* counter of a category is (still) one short of the ceiling
C27_Witness ==
    \E r \in Slots, i \in DOMAIN users :
        /\ reqs[r].op = "checkAPIUsage" /\ reqs[r].pc = "done"
        /\ reqs[r].resp.code = "NEXT"
        /\ \E a \in ApiTypes :
              Counter(users[i], MonthOf(now), a)
                 = DefaultLimits(users[i].subscriptionType)[a] - 1

\* C28: optionalAuth answers no request with an error: whatever token the
\* request carries (none, a malformed one, an expired one, one of a deleted
\* account) the step hands the request to the operation, once and without a
\* response; the request carries a user afterwards exactly when its token
\* verifies and the token's account exists, and that user is the token's.
C28_OptionalAuthNeverFails ==
    [][\A r \in Slots :
         (reqs[r].pc = "optional" /\ reqs'[r] # reqs[r])
         => LET q == reqs[r]
                valid == /\ q.atoken # NoTok
                         /\ q.atoken.sig = JWT_SECRET /\ now < q.atoken.exp
                         /\ q.atoken.id \in DOMAIN users IN
            /\ reqs'[r].pc = "handler"
            /\ reqs'[r].stage = q.stage + 1
            /\ reqs'[r].resp = NoResp
            /\ (reqs'[r].uid # 0) <=> valid
            /\ reqs'[r].uid # 0 => reqs'[r].uid = q.atoken.id
      ]_vars

\* C28 witness: a request carrying the unexpired access token of a deleted
\* account has passed optionalAuth without a user
C28_Witness ==
    \E r \in Slots :
        /\ reqs[r].op = "optional" /\ reqs[r].pc = "handler"
        /\ reqs[r].uid = 0
        /\ reqs[r].atoken \in issuedA /\ now < reqs[r].atoken.exp
        /\ reqs[r].atoken.id \notin DOMAIN users

\* C29: a request presenting a correctly signed access token whose signed
\* expiry has not passed gets through the access-token gate whenever the
\* token's account exists, and is refused USER_NOT_FOUND when it does not,
\* whatever the account's refreshTokens hold: sign-out, sign-out-all,
\* password change and password reset do not stop the token.
C29_AccessTokenNotRevocable ==
    [][\A r \in Slots :
         (/\ reqs[r].pc = "auth" /\ reqs'[r] # reqs[r]
          /\ reqs[r].atoken # NoTok
          /\ reqs[r].atoken.sig = JWT_SECRET
          /\ now < reqs[r].atoken.exp)
         => IF reqs[r].atoken.id \in DOMAIN users
            THEN /\ reqs'[r].pc = "handler"
                 /\ reqs'[r].uid = reqs[r].atoken.id
                 /\ reqs'[r].resp = NoResp
            ELSE /\ reqs'[r].pc = "done"
                 /\ reqs'[r].resp.code = "USER_NOT_FOUND"
      ]_vars

\* C29 witness: after sign-up and then sign-out-all (the only two requests
\* before this one, both finished) left the account without refresh tokens,
\* the third request has passed the gate with the access token of the sign-up
C29_Witness ==
    \E r \in Slots :
        /\ ops = 3
        /\ reqs[r].pc = "handler" /\ reqs[r].uid \in DOMAIN users
        /\ reqs[r].atoken \in issuedA
        /\ users[reqs[r].uid].refreshTokens = <<>>
        /\ \E t \in revokedAll : t.id = reqs[r].uid
        /\ \E s \in Slots \ {r} : reqs[s].op = "signUp" /\ reqs[s].pc = "done"

\* C30: a successful sign-in sets the refresh-token cookie for 30 days with
\* rememberMe and for 7 days without, and in both cases sets the
\* access-token cookie for 15 minutes and hands out a refresh token whose
\* signed expiry is JWT_REFRESH_EXPIRES_IN after its issue and an access
\* token whose signed expiry is JWT_EXPIRES_IN after its issue; and a refresh
\* presenting a handed-out refresh token at or after that instant is refused,
\* however the token was issued.
C30_RememberMeOnlyCookie ==
    [][\A r \in Slots :
         /\ (/\ reqs[r].op = "signIn" /\ reqs[r].pc # "done"
             /\ reqs'[r].pc = "done" /\ reqs'[r].resp.status = 200)
            => /\ reqs'[r].refreshCookie = IF reqs[r].rememberMe
                                           THEN 30 * 24 * 60 * 60
                                           ELSE 7 * 24 * 60 * 60
               /\ reqs'[r].accessCookie = 15 * 60
               /\ reqs'[r].resp.refreshToken.exp
                     = reqs'[r].resp.refreshToken.iat + JWT_REFRESH_EXPIRES_IN
               /\ reqs'[r].resp.accessToken.exp
                     = reqs'[r].resp.accessToken.iat + JWT_EXPIRES_IN
         /\ (/\ reqs[r].op = "refreshToken" /\ reqs[r].pc = "verify"
             /\ reqs'[r] # reqs[r]
             /\ reqs[r].rtoken \in issuedR
             /\ now >= reqs[r].rtoken.iat + JWT_REFRESH_EXPIRES_IN)
            => /\ reqs'[r].pc = "done"
               /\ reqs'[r].resp.status = 401
      ]_vars

\* C30 witness: a sign-in with rememberMe has been answered with a
\* thirty-day refresh cookie carrying a refresh token signed for
\* JWT_REFRESH_EXPIRES_IN
C30_Witness ==
    \E r \in Slots :
        /\ reqs[r].op = "signIn" /\ reqs[r].pc = "done"
        /\ reqs[r].resp.status = 200
        /\ reqs[r].refreshCookie = 30 * 24 * 60 * 60
        /\ reqs[r].accessCookie = 15 * 60
        /\ reqs[r].resp.refreshToken.exp
              = reqs[r].resp.refreshToken.iat + JWT_REFRESH_EXPIRES_IN

\* the error is one the store's driver produces: the Mongoose errors carry no
\* code, a server error carries one
DriverError(o) ==
    /\ ~o.ok
    /\ o.name \in {"ValidationError", "CastError", "DocumentNotFoundError"}
          => o.code = 0
    /\ o.name = "MongoServerError" => o.code # 0

\* C31: handleDbOperation returns the operation's result unchanged when the
\* operation succeeds; when it fails, the caller always gets an AppError
\* with one of the five application codes, never the store's error, and for
\* the errors the driver produces: ValidationError gives 400
\* VALIDATION_ERROR, code 11000 gives 409 DUPLICATE_RESOURCE, CastError gives
\* 400 INVALID_ID_FORMAT, DocumentNotFoundError gives 404 RESOURCE_NOT_FOUND
\* and every other failure gives 500 DATABASE_ERROR.
C31_DbErrorsMapped ==
    \A r \in Slots :
        (reqs[r].op = "dbOperation" /\ reqs[r].pc = "done")
        => LET o == reqs[r].mem[1]
               got == reqs[r].mem[2]
               answer == <<got.status, got.code>> IN
           /\ o.ok => got.kind = "return" /\ got.value = o.value
           /\ ~o.ok
                 => /\ got.kind = "AppError"
                    /\ answer \in {<<400, "VALIDATION_ERROR">>,
                                   <<409, "DUPLICATE_RESOURCE">>,
                                   <<400, "INVALID_ID_FORMAT">>,
                                   <<404, "RESOURCE_NOT_FOUND">>,
                                   <<500, "DATABASE_ERROR">>}
           /\ DriverError(o)
                 => answer =
                      CASE o.name = "ValidationError" -> <<400, "VALIDATION_ERROR">>
                        [] o.code = 11000 -> <<409, "DUPLICATE_RESOURCE">>
                        [] o.name = "CastError" -> <<400, "INVALID_ID_FORMAT">>
                        [] o.name = "DocumentNotFoundError"
                              -> <<404, "RESOURCE_NOT_FOUND">>
                        [] OTHER -> <<500, "DATABASE_ERROR">>

\* C31 witness: a server error that is not a duplicate key and a network
\* error without a code have both come out as DATABASE_ERROR
C31_Witness ==
    \E r1, r2 \in Slots :
        /\ reqs[r1].op = "dbOperation" /\ reqs[r1].pc = "done"
        /\ reqs[r2].op = "dbOperation" /\ reqs[r2].pc = "done"
        /\ reqs[r1].mem[1].name = "MongoServerError"
        /\ reqs[r1].mem[1].code \notin {0, 11000}
        /\ reqs[r2].mem[1].name = "MongoNetworkError"
        /\ reqs[r2].mem[1].code = 0
        /\ reqs[r1].mem[2].code = "DATABASE_ERROR"
        /\ reqs[r2].mem[2].code = "DATABASE_ERROR"

\* C32: incrementAPIUsage(category) on an account without a record for the
\* current month appends one record for the month with counter 1 for the
\* category, 0 for the other two and the ceilings of the account's tier;
\* on an account with a record for the month it adds exactly 1 to that
\* record's counter of the category; the other counters, the record's
\* ceilings (whatever the tier is now) and the records of other months stay
\* as they were; and the save persists exactly that.
C32_IncrementFrame ==
    [][\A r \in Slots :
         /\ (/\ reqs[r].op = "recordUsage" /\ reqs[r].pc = "load"
             /\ reqs'[r].pc = "save")
            => LET doc == users[reqs[r].uid]
                   a == reqs[r].apiType
                   m == MonthOf(now)
                   old == doc.apiUsage
                   new == reqs'[r].mem
                   has == {i \in DOMAIN old : old[i].month = m} IN
               IF has = {}
               THEN /\ Len(new) = Len(old) + 1
                    /\ \A i \in DOMAIN old : new[i] = old[i]
                    /\ new[Len(new)].month = m
                    /\ \A c \in ApiTypes :
                          new[Len(new)][c] = IF c = a THEN 1 ELSE 0
                    /\ new[Len(new)].maxLimits = DefaultLimits(doc.subscriptionType)
               ELSE /\ Len(new) = Len(old)
                    /\ \E i \in has :
                          /\ new[i].month = m
                          /\ new[i].maxLimits = old[i].maxLimits
                          /\ \A c \in ApiTypes :
                                new[i][c] = IF c = a THEN old[i][c] + 1 ELSE old[i][c]
                          /\ \A j \in DOMAIN old \ {i} : new[j] = old[j]
         /\ (/\ reqs[r].op = "recordUsage" /\ reqs[r].pc = "save"
             /\ reqs'[r].pc = "done" /\ reqs'[r].resp.status = 200)
            => users'[reqs[r].uid].apiUsage = reqs[r].mem
      ]_vars

\* C32 witness: the increment has been applied to a record whose ceilings
\* are not those of the account's tier, and the record's counter is ahead of
\* the stored one by 1
C32_Witness ==
    \E r \in Slots :
        /\ reqs[r].op = "recordUsage" /\ reqs[r].pc = "save"
        /\ reqs[r].usageIndex # 0
        /\ LET doc == users[reqs[r].uid]
               i == reqs[r].usageIndex IN
           /\ doc.apiUsage[i].maxLimits # DefaultLimits(doc.subscriptionType)
           /\ reqs[r].mem[i].maxLimits = doc.apiUsage[i].maxLimits
           /\ reqs[r].mem[i][reqs[r].apiType] = doc.apiUsage[i][reqs[r].apiType] + 1

\* C33: the write of a successful sign-in adds exactly one token to the
\* account's refreshTokens, a token that was not there before, and keeps
\* every token that was there: the set afterwards is the set before plus the
\* token the sign-in returns.
C33_SignInAddsOneToken ==
    [][\A r \in Slots :
         (/\ reqs[r].op = "signIn" /\ reqs[r].pc = "push"
          /\ reqs'[r].pc # "push"
          /\ reqs[r].uid \in DOMAIN users)
         => LET before == users[reqs[r].uid].refreshTokens
                after == users'[reqs[r].uid].refreshTokens IN
            /\ Range(after) = Range(before) \cup {reqs[r].newR}
            /\ reqs[r].newR \notin Range(before)
            /\ Len(after) = Len(before) + 1
      ]_vars

\* C34: no account's refreshTokens holds the same token twice (every
\* refresh token issued for an account differs from those issued for it
\* before, also within one clock second).
C34_RefreshTokensDistinct ==
    \A i \in DOMAIN users :
        \A j, k \in DOMAIN users[i].refreshTokens :
            j # k => users[i].refreshTokens[j] # users[i].refreshTokens[k]

C36_CeilingNeverOvershot ==
    \A i \in DOMAIN users, m \in Months, a \in ApiTypes :
        Counter(users[i], m, a) <= DefaultLimits(users[i].subscriptionType)[a]

\* C37: every account holds at most one usage record for each calendar
\* month, in every reachable state of concurrent usage requests.
C37_OneRecordPerMonth ==
    \A i \in DOMAIN users, m \in Months :
        Cardinality({k \in DOMAIN users[i].apiUsage : users[i].apiUsage[k].month = m}) <= 1

\* the fields a profile update must not touch
ProtectedFields ==
    {"password", "refreshTokens", "subscriptionType", "subscriptionExpiry",
     "apiUsage", "isEmailVerified", "passwordResetToken", "passwordResetExpiry"}

\* C38: no step of a profile update, whatever body the client sent, changes
\* an account's password hash, refreshTokens, subscriptionType,
\* subscriptionExpiry, apiUsage, verification flag or password-reset token,
\* and no account appears or disappears.
C38_ProfileUpdateFrame ==
    [][(\E r \in Slots : /\ reqs[r].op = "updateProfile"
                         /\ reqs[r].pc \notin {"idle", "done"}
                         /\ reqs'[r] # reqs[r])
       => /\ DOMAIN users' = DOMAIN users
          /\ \A i \in DOMAIN users, f \in ProtectedFields :
                users'[i][f] = users[i][f]
      ]_vars

\* C38 witness: a profile update has succeeded and changed the farmer type
\* of the account; the password hash is still that of the sign-up and the
\* refresh token of the sign-up is still there
C38_Witness ==
    \E r \in Slots, i \in DOMAIN users :
        /\ reqs[r].op = "updateProfile" /\ reqs[r].pc = "done"
        /\ reqs[r].resp.status = 200
        /\ users[i].farmerType = "commercial"
        /\ users[i].refreshTokens # <<>>
        /\ users[i].password = Hash("pw1")

\* C39: the farmer-type, tier, quota and verification gates let a request of
\* an existing account through exactly when the values stored for the
\* account at that moment allow it, whatever farmer type and tier the
\* request's access token carries: a token issued before the stored values
\* changed is judged by the new values.
C39_GatesReadStoredState ==
    [][\A r \in Slots :
         (/\ reqs[r].op = "protected"
          /\ reqs[r].pc \in {"farmer", "subscription", "quota", "email"}
          /\ reqs'[r] # reqs[r]
          /\ reqs[r].uid \in DOMAIN users)
         => LET doc == users[reqs[r].uid]
                q == reqs[r]
                passed == reqs'[r].pc # "done" IN
            /\ q.pc = "farmer" => (passed <=> doc.farmerType \in q.allowedTypes)
            /\ q.pc = "subscription"
                  => (passed <=> /\ ~SubscriptionLapsed(doc)
                                 /\ TierRank(doc.subscriptionType) >= TierRank(q.required))
            /\ q.pc = "quota"
                  => (passed <=> Counter(doc, MonthOf(now), q.apiType)
                                    < DefaultLimits(doc.subscriptionType)[q.apiType])
            /\ q.pc = "email" => (passed <=> doc.isEmailVerified)
      ]_vars

\* C39 witness: a request has passed every gate with an access token that
\* carries the farmer type individual and the tier free, issued before a
\* profile update made the account commercial, on a route for commercial or
\* cooperative farmers of the premium tier
C39_Witness ==
    \E r \in Slots :
        /\ reqs[r].op = "protected" /\ reqs[r].pc = "handler"
        /\ reqs[r].atoken.extra = <<"a1", "individual", "free">>
        /\ reqs[r].allowedTypes = {"commercial", "cooperative"}
        /\ reqs[r].required = "premium"
        /\ users[reqs[r].uid].farmerType = "commercial"

====
